---- MODULE Spec2Model ----
(***************************************************************************)
(* A model of the conversational core of zero-cost-Jarvis: main.py's turn  *)
(* loop (main_loop, process_interaction), AgenticBrain.think with its      *)
(* tool dispatch and destructive-command confirmation (src/brain/llm.py),  *)
(* Hands.execute_action (src/tools/hands.py), ReflexSpine.check_reflex     *)
(* (src/brain/reflex.py) and TTSEngine's speaking state (src/senses/tts.py)*)
(*                                                                         *)
(* Texts are TLA+ strings; Python's str operations are operators over      *)
(* them, built from Len, SubSeq and \o.                                    *)
(***************************************************************************)
EXTENDS Integers, Sequences, FiniteSets, TLC

(***************************************************************************)
(* Python str operations                                                   *)
(***************************************************************************)

\* s[i] as a one-character string (1-based)
Ch(s, i) == SubSeq(s, i, i)

\* s[i:] (1-based i)
Tail0(s, i) == SubSeq(s, i, Len(s))

\* s.startswith(p)
StartsWith(s, p) == Len(p) <= Len(s) /\ SubSeq(s, 1, Len(p)) = p

\* s.find(w): the 1-based index of the first occurrence of w in s, 0 if none
\* (Python's 0-based find is this minus one, -1 if none)
RECURSIVE FindFrom(_, _, _)
FindFrom(s, w, i) ==
    IF i + Len(w) - 1 > Len(s) THEN 0
    ELSE IF SubSeq(s, i, i + Len(w) - 1) = w THEN i
    ELSE FindFrom(s, w, i + 1)

Find(s, w) == FindFrom(s, w, 1)

\* s.rfind(w): the 1-based index of the last occurrence, 0 if none
RECURSIVE RFindFrom(_, _, _)
RFindFrom(s, w, i) ==
    IF i < 1 THEN 0
    ELSE IF SubSeq(s, i, i + Len(w) - 1) = w THEN i
    ELSE RFindFrom(s, w, i - 1)

RFind(s, w) == RFindFrom(s, w, Len(s) - Len(w) + 1)

\* w in s
Contains(s, w) == Find(s, w) # 0

UpperChars == <<"A", "B", "C", "D", "E", "F", "G", "H", "I", "J", "K", "L", "M",
                "N", "O", "P", "Q", "R", "S", "T", "U", "V", "W", "X", "Y", "Z">>
LowerChars == <<"a", "b", "c", "d", "e", "f", "g", "h", "i", "j", "k", "l", "m",
                "n", "o", "p", "q", "r", "s", "t", "u", "v", "w", "x", "y", "z">>

LowerCh(c) ==
    IF \E k \in 1..26 : UpperChars[k] = c
    THEN LowerChars[CHOOSE k \in 1..26 : UpperChars[k] = c]
    ELSE c

\* s.lower()
RECURSIVE Lower(_)
Lower(s) == IF Len(s) = 0 THEN "" ELSE LowerCh(Ch(s, 1)) \o Lower(Tail0(s, 2))

IsWs(c) == c \in {" ", "\n", "\t", "\r"}

RECURSIVE LStrip(_)
LStrip(s) == IF Len(s) > 0 /\ IsWs(Ch(s, 1)) THEN LStrip(Tail0(s, 2)) ELSE s

RECURSIVE RStrip(_)
RStrip(s) ==
    IF Len(s) > 0 /\ IsWs(Ch(s, Len(s))) THEN RStrip(SubSeq(s, 1, Len(s) - 1)) ELSE s

\* s.strip()
Strip(s) == RStrip(LStrip(s))

\* s.replace(old, new), old non-empty
RECURSIVE Replace(_, _, _)
Replace(s, old, new) ==
    LET i == Find(s, old) IN
    IF i = 0 THEN s
    ELSE SubSeq(s, 1, i - 1) \o new \o Replace(Tail0(s, i + Len(old)), old, new)

\* s[:n]
Prefix(s, n) == IF Len(s) <= n THEN s ELSE SubSeq(s, 1, n)

\* s.split(sep, 1)[1] when sep occurs in s: the text after the first sep
AfterFirst(s, sep) == Tail0(s, Find(s, sep) + Len(sep))

(***************************************************************************)
(* json.loads, for the payloads the model draws: one flat object whose     *)
(* values are strings without escapes.  Anything else is a decode error.   *)
(***************************************************************************)

JsonFail == [ok |-> FALSE, obj |-> <<>>]

RECURSIVE SkipWs(_, _)
SkipWs(s, i) == IF i <= Len(s) /\ IsWs(Ch(s, i)) THEN SkipWs(s, i + 1) ELSE i

\* the index of the first '"' at or after i, 0 if none
RECURSIVE StrEnd(_, _)
StrEnd(s, i) ==
    IF i > Len(s) THEN 0 ELSE IF Ch(s, i) = "\"" THEN i ELSE StrEnd(s, i + 1)

IsAt(s, i, c) == i <= Len(s) /\ Ch(s, i) = c

JsonPut(obj, key, val) ==
    [x \in DOMAIN obj \cup {key} |-> IF x = key THEN val ELSE obj[x]]

RECURSIVE JsonMembers(_, _, _)
JsonMembers(s, i, acc) ==
    LET k0 == SkipWs(s, i) IN
    IF ~IsAt(s, k0, "\"") THEN JsonFail
    ELSE LET k1 == StrEnd(s, k0 + 1) IN
    IF k1 = 0 THEN JsonFail
    ELSE LET c == SkipWs(s, k1 + 1) IN
    IF ~IsAt(s, c, ":") THEN JsonFail
    ELSE LET v0 == SkipWs(s, c + 1) IN
    IF ~IsAt(s, v0, "\"") THEN JsonFail
    ELSE LET v1 == StrEnd(s, v0 + 1) IN
    IF v1 = 0 THEN JsonFail
    ELSE LET acc2 == JsonPut(acc, SubSeq(s, k0 + 1, k1 - 1), SubSeq(s, v0 + 1, v1 - 1))
             d == SkipWs(s, v1 + 1) IN
    IF IsAt(s, d, ",") THEN JsonMembers(s, d + 1, acc2)
    ELSE IF IsAt(s, d, "}") /\ SkipWs(s, d + 1) > Len(s) THEN [ok |-> TRUE, obj |-> acc2]
    ELSE JsonFail

JsonLoads(s) ==
    LET b == SkipWs(s, 1) IN
    IF ~IsAt(s, b, "{") THEN JsonFail
    ELSE LET m == SkipWs(s, b + 1) IN
    IF IsAt(s, m, "}")
    THEN (IF SkipWs(s, m + 1) > Len(s) THEN [ok |-> TRUE, obj |-> <<>>] ELSE JsonFail)
    ELSE JsonMembers(s, b + 1, <<>>)

\* dict.get(key, default)
Get(obj, key, default) == IF key \in DOMAIN obj THEN obj[key] ELSE default

(***************************************************************************)
(* src/brain/tools.py: the destructive-command classifier                  *)
(***************************************************************************)

DESTRUCTIVE_PATTERNS ==
    <<"rm ", "del ", "rmdir", "remove", "delete", "format", "fdisk", "drop ",
      "truncate", "shutdown", "restart", "reboot", "> ", ">>",
      "git push --force", "git reset --hard">>

\* seeded fault: a classifier that flags no command
is_destructive_command_Never(command) == FALSE

is_destructive_command(command) ==
    LET cmd_lower == Lower(command) IN
    \E k \in DOMAIN DESTRUCTIVE_PATTERNS : Contains(cmd_lower, DESTRUCTIVE_PATTERNS[k])

(***************************************************************************)
(* src/brain/llm.py: AgenticBrain                                          *)
(***************************************************************************)

\* The markdown code fence is three backquotes in the source; a TLA+ string
\* cannot hold a backquote, so the fence is written with three tildes here
\* and in every text the model draws.
Fence == "~~~"

OfflineMsg == "I'm offline, Sheriff. Check my configuration."
AgentErrorMsg == "I encountered an error, Sheriff."
ConfusedMsg == "I tried to execute a command but got confused with the syntax, Sheriff."
CancelledMsg == "Cancelled, Sheriff."
GroqErrorResponse == "{\"tool\": \"error\", \"message\": \"Groq Error\"}"
AskPermissionFault == "'AgenticBrain' object has no attribute '_ask_for_permission'"
AskPermissionError == "Error: " \o AskPermissionFault

\* _pending_confirmation: None, or the dict {"command", "question"}
NoPending == [set |-> FALSE, command |-> "", question |-> ""]

PendingFor(command) ==
    [set |-> TRUE, command |-> command,
     question |-> "This may be destructive: " \o command \o ". Proceed, Sheriff?"]

\* One invocation of a tool handler: the handler's name and its argument.
Call(h, arg) == [h |-> h, arg |-> arg]

\* What a subprocess does is the environment's choice: it prints text (stdout
\* or stderr, possibly empty), runs past the deadline, or cannot be started.
ShellPrints(t) == [kind |-> "out", text |-> t]
ShellTimesOut == [kind |-> "timeout", text |-> ""]
ShellFails == [kind |-> "fail", text |-> "spawn failed"]

\* _run_command(command): subprocess.run with timeout=30
RunCommandResult(command, shell) ==
    CASE shell.kind = "timeout" -> "Command timed out."
      [] shell.kind = "fail" -> "Failed: " \o shell.text
      [] OTHER ->
            LET output == IF shell.text # "" THEN shell.text ELSE "Command completed." IN
            IF Len(output) > 500 THEN Prefix(output, 500) \o "\n...[truncated]" ELSE output

\* system_ops.execute_powershell(script): subprocess.run with timeout=30; the
\* shell's text is stdout on return code 0
PowershellResult(script, shell) ==
    CASE shell.kind = "out" -> "Success:\n" \o Prefix(shell.text, 500)
      [] OTHER -> "PowerShell Execution Failed: " \o shell.text

\* The result of one _execute_tool call: the text it returns, the pending
\* confirmation it leaves, the handlers it invoked, whether sys.exit ran.
\* `raised`: an exception is propagating out of the call; `fault`: the message
\* of the exception a handler raised ("" when none did).
ToolOut(ret, pend, calls, exit) ==
    [ret |-> ret, pending |-> pend, calls |-> calls, exit |-> exit,
     raised |-> FALSE, fault |-> ""]

\* a handler raises an exception with message e after the invocations `calls`
ToolRaises(e, pend, calls) ==
    [ret |-> "", pending |-> pend, calls |-> calls, exit |-> FALSE,
     raised |-> TRUE, fault |-> e]

\* seeded fault: _execute_tool without its except clause
CatchToolError_Missing(o) == o

\* _execute_tool, lines 460-462: except Exception as e: return f"Error: {e}"
CatchToolError(o) ==
    IF o.raised THEN [o EXCEPT !.ret = "Error: " \o o.fault, !.raised = FALSE] ELSE o

\* s[start:end] for the first "{" and the last "}" of s, as lines 286-290
\* (and 299-302) take it; HasSpan is "start != -1 and end > start".
HasSpan(s) == Find(s, "{") # 0 /\ RFind(s, "}") > Find(s, "{") - 1

Span(s) == SubSeq(s, Find(s, "{"), RFind(s, "}"))

\* line 298: the response without its fences
Unfenced(response) == Strip(Replace(Replace(response, Fence \o "json", ""), Fence, ""))

\* lines 296-307: the second attempt, on the unfenced text
ParseSecond(second) ==
    IF second.ok THEN [kind |-> "ok", obj |-> second.obj]
    ELSE [kind |-> "confused", obj |-> <<>>]

SecondText(clean) == IF HasSpan(clean) THEN Span(clean) ELSE clean

ParseFirst(first, response) ==
    IF first.ok THEN [kind |-> "ok", obj |-> first.obj]
    ELSE ParseSecond(JsonLoads(SecondText(Unfenced(response))))

\* _execute_tool, lines 283-307: locate the first "{" and the last "}" and
\* parse the span; on a decode error strip the fences and parse again.
\* kind "raw": no span found, the response itself is returned.
ParsePayload(response) ==
    IF ~HasSpan(response) THEN [kind |-> "raw", obj |-> <<>>]
    ELSE ParseFirst(JsonLoads(Span(response)), response)

\* _execute_tool, lines 309-462: the dispatch on the tool tag.  `pend` is
\* _pending_confirmation at the call, `shell` what a subprocess would do and
\* `fault` whether a handler that starts a process raises.
DispatchTool(data, pend, shell, fault) ==
    LET tool == Get(data, "tool", "") IN
    CASE tool = "open_app" ->
            IF fault THEN ToolRaises("[WinError 2]", pend, <<Call("_open_app", Get(data, "app", ""))>>)
            ELSE ToolOut("Opening " \o Get(data, "app", "") \o ".", pend,
                         <<Call("_open_app", Get(data, "app", ""))>>, FALSE)
      [] tool = "web_search" ->
            IF fault THEN ToolRaises("no browser", pend,
                                     <<Call("webbrowser.open", Get(data, "query", ""))>>)
            ELSE ToolOut("Searching for " \o Get(data, "query", ""), pend,
                         <<Call("webbrowser.open", Get(data, "query", ""))>>, FALSE)
      [] tool = "execute_powershell" ->
            LET script == Get(data, "script", "") IN
            IF is_destructive_command(script)
            THEN ToolRaises(AskPermissionFault, pend, <<>>)
            ELSE ToolOut(PowershellResult(script, shell), pend,
                         <<Call("execute_powershell", script)>>, FALSE)
      [] tool = "run_command" ->
            LET command == Get(data, "command", "") IN
            IF is_destructive_command(command)
            THEN ToolOut("Waiting for confirmation", PendingFor(command), <<>>, FALSE)
            ELSE ToolOut(RunCommandResult(command, shell), pend,
                         <<Call("_run_command", command)>>, FALSE)
      [] tool = "play_music" ->
            LET song == Get(data, "song", "") IN
            IF fault THEN ToolOut("Failed to play music: [WinError 2]", pend,
                                  <<Call("stop_music", "")>>, FALSE)
            ELSE ToolOut("Streaming '" \o song \o "' in the background, Sheriff.", pend,
                         <<Call("play_music", song)>>, FALSE)
      [] tool = "stop_music" ->
            ToolOut("Music stopped, Sheriff.", pend, <<Call("stop_music", "")>>, FALSE)
      [] tool = "get_time" ->
            ToolOut("It's 07:30 AM on Wednesday, November 04, Sheriff.", pend,
                    <<Call("get_time", "")>>, FALSE)
      [] tool = "exit" -> ToolOut("", pend, <<Call("sys.exit", "")>>, TRUE)
      [] OTHER -> ToolOut("Unknown tool: " \o tool, pend, <<>>, FALSE)

ExecuteParsed(p, response, pend, shell, fault) ==
    CASE p.kind = "raw" -> ToolOut(response, pend, <<>>, FALSE)
      [] p.kind = "confused" -> ToolOut(ConfusedMsg, pend, <<>>, FALSE)
      [] OTHER -> CatchToolError(DispatchTool(p.obj, pend, shell, fault))

\* _execute_tool(response)
ExecuteTool(response, pend, shell, fault) ==
    ExecuteParsed(ParsePayload(response), response, pend, shell, fault)

AffirmativeWords == <<"yes", "proceed", "do it", "confirm", "go">>

\* _handle_confirmation, line 501: the test that the answer is affirmative
IsAffirmative(text) ==
    LET text_lower == Lower(text) IN
    \E k \in DOMAIN AffirmativeWords : Contains(text_lower, AffirmativeWords[k])

\* seeded fault: a refusal that leaves the pending confirmation in place
HandleConfirmation_KeepsPending(text, pend, shell) ==
    IF IsAffirmative(text)
    THEN ToolOut("Done. " \o Prefix(RunCommandResult(pend.command, shell), 100),
                 NoPending, <<Call("_run_command", pend.command)>>, FALSE)
    ELSE ToolOut(CancelledMsg, pend, <<>>, FALSE)

\* seeded fault: an affirmative answer that leaves the pending confirmation
\* in place
HandleConfirmation_RunsAndKeeps(text, pend, shell) ==
    IF IsAffirmative(text)
    THEN ToolOut("Done. " \o Prefix(RunCommandResult(pend.command, shell), 100),
                 pend, <<Call("_run_command", pend.command)>>, FALSE)
    ELSE ToolOut(CancelledMsg, NoPending, <<>>, FALSE)

\* _handle_confirmation(text), with _pending_confirmation = pend
HandleConfirmation(text, pend, shell) ==
    IF IsAffirmative(text)
    THEN ToolOut("Done. " \o Prefix(RunCommandResult(pend.command, shell), 100),
                 NoPending, <<Call("_run_command", pend.command)>>, FALSE)
    ELSE ToolOut(CancelledMsg, NoPending, <<>>, FALSE)

\* think, line 208: the response is taken as a tool call
IsToolCall(response) == StartsWith(response, "{") \/ Contains(response, "{\"tool\"")

\* The result of one think call: ToolOut plus whether the backend was called
\* and whether log_interaction recorded the exchange.
ThinkOut(o, ret, llm, logged) ==
    [ret |-> ret, pending |-> o.pending, calls |-> o.calls, exit |-> o.exit,
     llm |-> llm, logged |-> logged, raised |-> o.raised, fault |-> o.fault]

\* the backend call raises inside think's try block
BackendRaises(pend) ==
    [ret |-> "", pending |-> pend, calls |-> <<>>, exit |-> FALSE,
     llm |-> TRUE, logged |-> FALSE, raised |-> TRUE, fault |-> ""]

\* seeded fault: think without its except clause
CatchAgentError_Missing(t) == t

\* think, lines 224-226: except Exception: return "I encountered an error, Sheriff."
CatchAgentError(t) ==
    IF t.raised THEN [t EXCEPT !.ret = AgentErrorMsg, !.raised = FALSE] ELSE t

Nothing(pend) == ToolOut("", pend, <<>>, FALSE)

LlmRaises == "<backend raises>"

\* think, lines 209-220: after _execute_tool has returned o
ThinkOfTool(o) ==
    IF o.exit \/ o.raised THEN ThinkOut(o, "", TRUE, FALSE)
    ELSE IF o.pending.set THEN ThinkOut(o, o.pending.question, TRUE, FALSE)
    ELSE ThinkOut(o, o.ret, TRUE, o.ret # "" /\ ~Contains(o.ret, "Error"))

\* think, lines 205-222: the stripped response is a tool call or prose
ThinkOfResponse(response, pend, shell, fault) ==
    IF IsToolCall(response) THEN ThinkOfTool(ExecuteTool(response, pend, shell, fault))
    ELSE ThinkOut(Nothing(pend), response, TRUE, FALSE)

\* think, line 184
ThinkOfAnswer(o) == ThinkOut(o, o.ret, FALSE, FALSE)

\* think(text).  `llm` is what the backend call gives: a text, or LlmRaises
\* (_think_groq turns a backend fault into a response of its own, line 276).
ThinkTry(text, provider, pend, llm, shell, fault) ==
    IF pend.set THEN ThinkOfAnswer(HandleConfirmation(text, pend, shell))
    ELSE IF llm = LlmRaises /\ provider # "groq" THEN BackendRaises(pend)
    ELSE ThinkOfResponse(Strip(IF llm = LlmRaises THEN GroqErrorResponse ELSE llm),
                         pend, shell, fault)

\* What the memory log does in one think call: it works, read_recent_context
\* cannot read the file, the log directory cannot be made, or the file
\* cannot be written.
MemoryOutcomes == {"ok", "read_fails", "mkdir_fails", "write_fails"}

\* memory/logger.py lines 15-25, for a think call t that got to line 218:
\* _ensure_log_dir (17) is outside the try block, so its exception leaves
\* log_interaction; an exception of open or write is caught and printed.
\* A failed read_recent_context (27-39) gives "" for the prompt's context.
LogInteraction(t, mem) ==
    IF ~t.logged THEN t
    ELSE CASE mem = "mkdir_fails" -> [t EXCEPT !.logged = FALSE, !.raised = TRUE]
           [] mem = "write_fails" -> [t EXCEPT !.logged = FALSE]
           [] OTHER -> t

\* think(text) with the memory log behaving as mem
ThinkMem(text, connected, provider, pend, llm, shell, fault, mem) ==
    IF ~connected THEN ThinkOut(Nothing(pend), OfflineMsg, FALSE, FALSE)
    ELSE CatchAgentError(LogInteraction(ThinkTry(text, provider, pend, llm, shell, fault), mem))

\* think(text) with a memory log that works
Think(text, connected, provider, pend, llm, shell, fault) ==
    ThinkMem(text, connected, provider, pend, llm, shell, fault, "ok")

(***************************************************************************)
(* src/tools/hands.py: Hands.execute_action                                *)
(***************************************************************************)

UpperCh(c) ==
    IF \E k \in 1..26 : LowerChars[k] = c
    THEN UpperChars[CHOOSE k \in 1..26 : LowerChars[k] = c]
    ELSE c

\* s.capitalize()
Capitalize(s) == IF Len(s) = 0 THEN "" ELSE UpperCh(Ch(s, 1)) \o Lower(Tail0(s, 2))

\* s.split(sep)[0]
BeforeFirst(s, sep) == IF Contains(s, sep) THEN SubSeq(s, 1, Find(s, sep) - 1) ELSE s

\* lines 68-72: the first part between fences that holds both braces, with
\* "json" removed and stripped; the text itself when no part does.
RECURSIVE BracedPart(_, _)
BracedPart(rest, whole) ==
    LET part == BeforeFirst(rest, Fence) IN
    IF Contains(part, "{") /\ Contains(part, "}") THEN Strip(Replace(part, "json", ""))
    ELSE IF Contains(rest, Fence) THEN BracedPart(AfterFirst(rest, Fence), whole)
    ELSE whole

HandsOut(ret, calls, exit) == [ret |-> ret, calls |-> calls, exit |-> exit]

ExitWords == {"exit", "quit", "shutdown", "goodbye", "stop", "bye"}

\* _browser, _media, _system, _app, _keyboard
HandsBrowser(action, value) ==
    CASE action = "open" ->
            LET url == IF StartsWith(value, "http") THEN value ELSE "https://" \o value IN
            HandsOut("Opening " \o BeforeFirst(Replace(url, "https://", ""), "/"),
                     <<Call("Hands._browser", value)>>, FALSE)
      [] action = "search" ->
            HandsOut("Searching for " \o value, <<Call("Hands._browser", value)>>, FALSE)
      [] OTHER -> HandsOut("Browser action failed.", <<Call("Hands._browser", value)>>, FALSE)

HandsMedia(action, value) ==
    IF action = "press"
    THEN HandsOut(IF Contains(Lower(value), "volume") THEN "Volume adjusted." ELSE "Media controlled.",
                  <<Call("Hands._media", value)>>, FALSE)
    ELSE HandsOut("Media action failed.", <<Call("Hands._media", value)>>, FALSE)

HandsSystem(action, value) ==
    IF Lower(value) \in ExitWords
    THEN HandsOut("", <<Call("Hands._system", value)>>, TRUE)
    ELSE HandsOut("I cannot perform system control actions, Sheriff.",
                  <<Call("Hands._system", value)>>, FALSE)

HandsApp(action, value) ==
    CASE action \in {"open", "launch", "start"} ->
            HandsOut("Opening " \o Capitalize(value) \o ".", <<Call("Hands._app", value)>>, FALSE)
      [] action = "close" ->
            HandsOut("Closing " \o value \o ".", <<Call("Hands._app", value)>>, FALSE)
      [] OTHER -> HandsOut("App action failed.", <<Call("Hands._app", value)>>, FALSE)

HandsKeyboard(action, value) ==
    CASE action = "type" -> HandsOut("Typed text.", <<Call("Hands._keyboard", value)>>, FALSE)
      [] action \in {"press", "hotkey"} ->
            HandsOut("Pressed " \o value \o ".", <<Call("Hands._keyboard", value)>>, FALSE)
      [] OTHER -> HandsOut("Keyboard action failed.", <<Call("Hands._keyboard", value)>>, FALSE)

\* lines 82-99: the dispatch on the tool tag
HandsDispatch(tool, action, value) ==
    CASE tool = "browser" -> HandsBrowser(action, value)
      [] tool = "media" -> HandsMedia(action, value)
      [] tool = "system" -> HandsSystem(action, value)
      [] tool = "app" -> HandsApp(action, value)
      [] tool = "keyboard" -> HandsKeyboard(action, value)
      [] OTHER -> HandsOut("Unknown tool: " \o tool, <<>>, FALSE)

HandsParsed(parsed) ==
    IF ~parsed.ok THEN HandsOut("Failed to understand command.", <<>>, FALSE)
    ELSE HandsDispatch(Lower(Get(parsed.obj, "tool", "")),
                       Lower(Get(parsed.obj, "action", "")),
                       Get(parsed.obj, "value", ""))

\* lines 68-73: the text between the fences, if any
CleanJson(stripped) ==
    IF Contains(stripped, Fence) THEN BracedPart(stripped, stripped) ELSE stripped

\* execute_action(json_string)
ExecuteAction(json_string) ==
    HandsParsed(JsonLoads(SecondText(CleanJson(Strip(json_string)))))

(***************************************************************************)
(* src/brain/reflex.py: ReflexSpine's patterns                             *)
(***************************************************************************)

StopWords == {"stop", "quiet", "silence", "shut up", "mute"}
ReflexUrls == {"google", "youtube", "reddit", "github", "gmail", "mail"}
ReflexApps == {"calc", "calculator", "notepad", "cmd", "terminal", "explorer",
               "spotify", "code", "vscode"}
TimeQueries == {"what time is it", "time check", "current time"}

\* re.match(r"^(...)$", command, IGNORECASE) for an alternation of literals;
\* "$" also matches before one trailing newline, which strip() has removed.
MatchesStop(command) == Lower(command) \in StopWords

MatchesOpenUrl(command) ==
    \E t \in ReflexUrls : Lower(command) \in {"open " \o t, "open " \o t \o ".com"}

MatchesOpenApp(command) == \E a \in ReflexApps : Lower(command) = "open " \o a

MatchesTime(command) == Lower(command) \in TimeQueries

MatchesVolume(command) ==
    \/ Contains(command, "volume up") \/ Contains(command, "turn it up")
    \/ Contains(command, "volume down") \/ Contains(command, "turn it down")
    \/ Contains(command, "turn down")
    \/ Contains(command, "mute") \/ Contains(command, "unmute")

\* the commands for which check_reflex takes a reflex branch
IsReflex(command) ==
    LET c == Strip(command) IN
    MatchesStop(c) \/ MatchesOpenUrl(c) \/ MatchesOpenApp(c) \/ MatchesTime(c) \/ MatchesVolume(c)

(***************************************************************************)
(* Bounds and the inputs the environment draws                             *)
(***************************************************************************)

\* the clock is read every TickStep seconds and stops advancing at MaxTime
MaxTime == 13

TickStep == 6

\* frames the capture queue holds at most
MaxResidual == 2

\* main.py line 84: seconds the latch stays open without a wake phrase
conversation_timeout == 10

\* config.py: audio_sample_rate; audio.py line 25: block_size = int(rate * 0.03)
audio_sample_rate == 16000
block_size == 480

\* the number of frames in the buffer record_phrase returns
FrameCounts == {16, 17}

\* what the transcriber hears ("" is an empty transcription)
Utterances ==
    {"", "jarvis", "Jarvis open chrome", "open chrome", "ok", "stop",
     "yes", "no", "no, don't do it", "google it first"}

JsonAppAction == "{\"tool\":\"app\",\"action\":\"open\",\"value\":\"calc\"}"

\* what the language-model backend answers
Responses ==
    {"Hello Sheriff. Ready to ship?",
     "{\"tool\":\"run_command\",\"command\":\"rm -rf /tmp/x\"}",
     "{\"tool\":\"run_command\",\"command\":\"type action.json\"}",
     "{\"tool\":\"open_app\",\"app\":\"spotify\"}",
     "{\"tool\":\"execute_powershell\",\"script\":\"Remove-Item tmp\"}",
     "{\"tool\":\"open_app\",\"app\":\"spotify\"",
     "} {\"tool\":\"open_app\",\"app\":\"spotify\"",
     Fence \o "json\n{\"tool\":\"open_app\",\"app\":\"spotify\"}}\n" \o Fence,
     "{\"tool\":\"exit\"}"}

ShellOutcomes ==
    {ShellPrints("On branch main"), ShellPrints(JsonAppAction), ShellTimesOut, ShellFails}

Providers == {"ollama", "groq", "gemini"}

\* a queued frame is known by its RMS level, in thousandths
FrameLevels == {5, 50}

(***************************************************************************)
(* State                                                                   *)
(***************************************************************************)

VARIABLES
    pc,                     \* where main_loop / process_interaction stands
    now,                    \* the event loop's clock
    in_conversation,        \* main_loop's latch
    last_interaction_time,
    current_time,           \* main_loop's local, read at line 117
    text,                   \* the transcription of the current utterance
    command,
    connected,              \* AgenticBrain._connected
    provider,               \* AgenticBrain.provider
    pending,                \* AgenticBrain._pending_confirmation
    in_flight,              \* the think calls that have started and not returned
    response,               \* what think returned
    is_speaking,            \* TTSEngine._is_speaking
    interrupt_requested,    \* TTSEngine._interrupt_requested
    playback,               \* where the running speak() stands
    was_interrupted,        \* speak_with_interruption's local
    running,                \* AudioInput._running, and the input stream is open
    queue,                  \* AudioInput._queue
    turn,                   \* what has happened in the current turn (afterBareWake: the
                            \* turn before it was a wake phrase with no command)
    reflexLog,              \* the check_reflex calls made so far, with their outcomes
    speakers,               \* where each caller of TTSEngine.speak stands in its call
    mixer,                  \* the caller whose audio pygame.mixer.music plays, 0 if none
    ttsCalls,               \* the speak and interrupt calls made so far
    captures,               \* the buffers Listener.start got from record_phrase
    ears,                   \* NaturalEars: its latch, and what check_latch last returned
    music_process,          \* music.py: _music_process is set (music is playing)
    vad,                    \* the locals of AudioInput.listen and record_phrase, and the
                            \* frames they have taken
    retry                   \* one call of a function wrapped by async_retry: its
                            \* arguments, its locals, and what it has done

vars ==
    <<pc, now, in_conversation, last_interaction_time, current_time, text, command,
      connected, provider, pending, in_flight, response, is_speaking, interrupt_requested,
      playback, was_interrupted, running, queue, turn, reflexLog, speakers, mixer, ttsCalls,
      captures, ears, music_process, vad, retry>>

loopVars == <<in_conversation, last_interaction_time, current_time, text, command>>
brainVars == <<connected, provider, pending, in_flight>>
ttsVars == <<is_speaking, interrupt_requested, playback>>
ttsHarnessVars == <<speakers, mixer, ttsCalls>>
harnessVars == <<reflexLog, ttsHarnessVars, captures, ears, music_process, vad, retry>>

\* audio.py lines 66-67 and 126: listen has not begun: is_speaking,
\* silence_start_time (timing: it is not None), the frames record_phrase
\* holds; the frames this listen call has taken from the queue, the buffers
\* record_phrase has returned, when listen last left its loop, and the
\* count of the frames the callback has delivered
NoVad ==
    [is_speaking |-> FALSE, timing |-> FALSE, silence_start_time |-> 0, frames |-> <<>>,
     seen |-> <<>>, phrases |-> <<>>, left |-> 0, delivered |-> 0]

\* async_helpers.py lines 63-96: no wrapped call has been made: the
\* decorator's arguments, the wrapper's locals, the outcomes of the calls of
\* func, the delays slept and how the wrapper ended
NoRetry ==
    [max_retries |-> 0, delay |-> 0, backoff |-> 0, attempt |-> 0, current_delay |-> 0,
     last_exception |-> <<>>, outcomes |-> <<>>, sleeps |-> <<>>, ended |-> <<>>]

NoTtsCalls == [speaks |-> 0, interrupts |-> 0]

\* ears_v2.py lines 42-45: the latch of a new NaturalEars
NoLatch == [latch_active |-> FALSE, latch_end_time |-> 0, ret |-> "none"]

\* The record of a turn: the think call (its input, the pending confirmation
\* it found, whether it called the backend and with what answer, the handlers
\* it invoked, what it returned), the Hands call and the texts given to speak.
\* no shell call is being made: the call site, whether the process started
\* ever ends by itself and after how long, and when the call was made
NoShellCall == [site |-> "", ends |-> TRUE, needs |-> 0, started |-> 0]

EmptyTurn ==
    [thought |-> FALSE, pendingBefore |-> NoPending, llm |-> FALSE,
     raw |-> "", calls |-> <<>>, ret |-> "", logged |-> FALSE,
     handsCalled |-> FALSE, hands |-> <<>>, spoken |-> <<>>,
     fault |-> "", backendRaised |-> FALSE, escaped |-> FALSE, cleared |-> 0,
     captureFailed |-> FALSE, wasLatched |-> FALSE, commands |-> <<>>,
     afterBareWake |-> FALSE, memory |-> "ok", wouldReturn |-> "",
     shell |-> NoShellCall, stt |-> ""]

Init ==
    /\ pc = "listen"
    /\ now = 0
    /\ in_conversation = FALSE
    /\ last_interaction_time = 0
    /\ current_time = 0
    /\ text = ""
    /\ command = ""
    /\ connected \in BOOLEAN
    /\ provider \in Providers
    /\ pending = NoPending
    /\ in_flight = 0
    /\ response = ""
    /\ is_speaking = FALSE
    /\ interrupt_requested = FALSE
    /\ playback = "none"
    /\ was_interrupted = FALSE
    /\ running = FALSE
    /\ queue = <<>>
    /\ turn = EmptyTurn
    /\ reflexLog = <<>>
    /\ speakers = <<>>
    /\ mixer = 0
    /\ ttsCalls = NoTtsCalls
    /\ captures = <<>>
    /\ ears = NoLatch
    /\ music_process = FALSE
    /\ vad = NoVad
    /\ retry = NoRetry

(***************************************************************************)
(* src/senses/tts.py: TTSEngine                                            *)
(***************************************************************************)

\* speak, line 55: the text is not empty and has two or more non-blank characters
SpeakAccepts(t) == t # "" /\ Len(Strip(t)) >= 2

\* speak(t) up to its first await: lines 55-59
SpeakBegin(t) ==
    IF SpeakAccepts(t)
    THEN /\ interrupt_requested' = FALSE
         /\ is_speaking' = TRUE
         /\ playback' = "synth"
    ELSE UNCHANGED ttsVars

\* seeded fault: speak() started as a task and never awaited
SpeakReturned_NotAwaited == TRUE

\* the caller of an awaited speak() resumes when speak has returned
SpeakReturned == playback = "none"

\* speak, lines 76-88: synthesis ends and playback starts, or synthesis fails
\* and the finally clause clears _is_speaking
Synthesize ==
    /\ playback = "synth"
    /\ \E ok \in BOOLEAN :
          IF ok THEN playback' = "playing" /\ UNCHANGED <<is_speaking, interrupt_requested>>
          ELSE playback' = "none" /\ is_speaking' = FALSE /\ UNCHANGED interrupt_requested
    /\ UNCHANGED <<harnessVars, pc, now, loopVars, brainVars, response, was_interrupted, running, queue, turn>>

\* _play_audio's loop ends (the audio ran out, or the poll saw the interrupt
\* request and stopped it) and speak's finally clause clears _is_speaking
PlayEnd ==
    /\ playback = "playing"
    /\ playback' = "none"
    /\ is_speaking' = FALSE
    /\ UNCHANGED <<harnessVars, interrupt_requested, pc, now, loopVars, brainVars, response,
                   was_interrupted, running, queue, turn>>

(***************************************************************************)
(* main.py: main_loop                                                      *)
(***************************************************************************)

WakeWordVariants == <<"jarvis", "darius", "jervis", "jarv", "jaravis", "jarvi">>

\* line 122
WakeDetected(t) ==
    LET text_lower == Lower(t) IN
    \E k \in DOMAIN WakeWordVariants : Contains(text_lower, WakeWordVariants[k])

\* lines 132-136: the text after the first listed variant that occurs
ExtractCommand(t) ==
    LET text_lower == Lower(t)
        k == CHOOSE j \in DOMAIN WakeWordVariants :
                 /\ Contains(text_lower, WakeWordVariants[j])
                 /\ \A m \in 1..(j - 1) : ~Contains(text_lower, WakeWordVariants[m])
    IN  Strip(AfterFirst(text_lower, WakeWordVariants[k]))

\* line 95: len(audio_buffer) < settings.audio_sample_rate * 0.5
TooShort(frames) == 2 * frames * block_size < audio_sample_rate

\* line 97
LatchExpired == now - last_interaction_time > conversation_timeout

\* The loop goes back to line 92: the locals of the iteration are dead (each
\* is assigned again before it is read) and the record of the turn is closed.
TurnEnds ==
    /\ text' = ""
    /\ command' = ""
    /\ current_time' = 0
    /\ turn' = EmptyTurn

\* time passes while the loop waits for an utterance
Tick ==
    /\ pc = "listen"
    /\ now + TickStep <= MaxTime
    /\ now' = now + TickStep
    /\ UNCHANGED <<harnessVars, pc, loopVars, brainVars, response, ttsVars, was_interrupted, running, queue, turn>>

\* audio.py lines 65-79: record_phrase starts listen(), which sets _running
\* and opens the input stream
ListenStart ==
    /\ pc = "listen"
    /\ pc' = "recording"
    /\ running' = TRUE
    /\ turn' = [EmptyTurn EXCEPT !.afterBareWake = turn.afterBareWake]
    /\ UNCHANGED <<harnessVars, now, loopVars, brainVars, response, ttsVars, was_interrupted,
                   queue>>

\* audio.py line 22: self._queue = asyncio.Queue(), whose maxsize is 0
maxsize == 0

\* asyncio.Queue.full(): a queue of maxsize 0 is never full
QueueFull(q) == maxsize > 0 /\ Len(q) >= maxsize

\* audio.py lines 55-58: put_nowait(block); on QueueFull the new block is
\* not queued and a warning is logged
put_nowait(q, block) == IF QueueFull(q) THEN q ELSE Append(q, block)

\* audio.py lines 48-58: the stream's callback puts a block in the queue
\* while _running is set
AudioCallback ==
    /\ running
    /\ Len(queue) < MaxResidual
    /\ \E level \in FrameLevels : queue' = put_nowait(queue, level)
    /\ UNCHANGED <<harnessVars, pc, now, loopVars, brainVars, response, ttsVars, was_interrupted,
                   running, turn>>

\* main.py lines 92 and 165-167: the input stream raises while record_phrase
\* is recording (a device error); the with statement of audio.py 79 closes
\* the stream, the exception leaves record_phrase and is caught by the loop's
\* except Exception, which logs it, sleeps 0.1 s and starts the next iteration
ListenFails ==
    /\ pc = "recording"
    /\ running' = FALSE
    /\ turn' = [turn EXCEPT !.captureFailed = TRUE]
    /\ pc' = "listen"
    /\ UNCHANGED <<harnessVars, now, loopVars, brainVars, response, ttsVars, was_interrupted,
                   queue>>

\* What the speech-to-text backend does with a buffer is the environment's
\* choice: it gives a text, the Groq call fails (stt.py lines 125-127 catch
\* the exception), or the local model raises (lines 59-86 have no handler).
SttFails == [kind |-> "fails", text |-> ""]
SttRaises == [kind |-> "raises", text |-> ""]
SttHears(t) == [kind |-> "hears", text |-> t]

SttOutcomes == {SttHears(t) : t \in Utterances} \cup {SttFails, SttRaises}

\* stt.py lines 41-60 and 88-132: transcribe(audio_data) for a buffer of
\* `frames` blocks.  `backend`: a backend was called; `raised`: an exception
\* leaves transcribe.
transcribe(frames, stt) ==
    IF frames = 0 THEN [text |-> "", backend |-> FALSE, raised |-> FALSE]
    ELSE [text |-> IF stt.kind = "hears" THEN Strip(stt.text) ELSE "",
          backend |-> TRUE, raised |-> stt.kind = "raises"]

\* seeded fault: an empty text is routed like any other
NoText_Routed(heard) == FALSE

\* main.py lines 108-109 (if not text: continue) and 165-167 (an exception
\* of transcribe is caught by the loop, which goes on with its next iteration)
NoText(heard) == heard.raised \/ heard.text = ""

\* how the transcription of the turn ended, for the record of the turn
SttNote(heard) ==
    IF heard.raised THEN "raised" ELSE IF heard.text = "" THEN "empty" ELSE "text"

\* lines 107-112: transcribe has returned `heard`
Transcribed(heard) ==
    /\ text' = heard.text
    /\ pc' = IF NoText(heard) THEN "listen" ELSE "route"
    /\ turn' = [turn EXCEPT !.stt = SttNote(heard)]

\* the frames still queued when listen() ends: it has taken the others
Residuals == {SubSeq(queue, k, Len(queue)) : k \in 1..(Len(queue) + 1)}

\* lines 92-112: listen() ends (audio.py 106-118: the stream is closed and
\* _running cleared), record_phrase returns a buffer, transcribe gives its text
Listen ==
    /\ pc = "recording"
    /\ running' = FALSE
    /\ \E frames \in FrameCounts, stt \in SttOutcomes, residual \in Residuals :
          /\ queue' = residual
          /\ IF TooShort(frames)
             THEN /\ in_conversation' = IF in_conversation /\ LatchExpired THEN FALSE
                                        ELSE in_conversation
                  /\ text' = ""
                  /\ pc' = "listen"
                  /\ UNCHANGED turn
             ELSE /\ Transcribed(transcribe(frames, stt))
                  /\ UNCHANGED in_conversation
    /\ UNCHANGED <<harnessVars, now, last_interaction_time, current_time, command, brainVars, response,
                   ttsVars, was_interrupted>>

\* lines 125-129: a wake phrase is heard and "Yes, Sir?" is spoken
RouteWake ==
    /\ pc = "route"
    /\ WakeDetected(text)
    /\ current_time' = now
    /\ SpeakBegin("Yes, Sir?")
    /\ turn' = [turn EXCEPT !.spoken = Append(@, "Yes, Sir?"), !.wasLatched = in_conversation,
                            !.afterBareWake = FALSE]
    /\ pc' = "ack"
    /\ UNCHANGED <<harnessVars, now, in_conversation, last_interaction_time, text, command, brainVars,
                   response, was_interrupted, running, queue>>

\* seeded fault: a wake phrase that does not open the conversation
WakeLatch_Missing == FALSE

\* line 138: in_conversation = True
WakeLatch == TRUE

\* seeded fault: process_interaction called whatever the command is
Emits_Always(cmd) == TRUE

\* line 153: if command
Emits(cmd) == cmd # ""

\* seeded fault: no filter on the length of a latched turn's text
LongEnough_Any(t) == TRUE

\* line 148: if len(text) > 2
LongEnough(t) == Len(t) > 2

\* lines 131-143 and 153: after the acknowledgement, the command is extracted
\* and the latch is activated
AckDone ==
    /\ pc = "ack"
    /\ SpeakReturned
    /\ in_conversation' = WakeLatch
    /\ last_interaction_time' = current_time
    /\ IF Emits(ExtractCommand(text))
       THEN /\ command' = ExtractCommand(text)
            /\ pc' = "think"
            /\ UNCHANGED <<current_time, text, turn>>
       ELSE /\ pc' = "listen"
            /\ text' = ""
            /\ command' = ""
            /\ current_time' = 0
            /\ turn' = [EmptyTurn EXCEPT !.afterBareWake = TRUE]
    /\ UNCHANGED <<harnessVars, now, brainVars, response, ttsVars, was_interrupted, running, queue>>

\* lines 146-150 and 153: no wake phrase, the latch is set
RouteLatched ==
    /\ pc = "route"
    /\ ~WakeDetected(text)
    /\ in_conversation
    /\ IF LongEnough(text)
       THEN /\ current_time' = now
            /\ command' = text
            /\ last_interaction_time' = now
            /\ pc' = "think"
            /\ UNCHANGED <<text, turn>>
       ELSE /\ pc' = "listen"
            /\ TurnEnds
            /\ UNCHANGED last_interaction_time
    /\ UNCHANGED <<harnessVars, now, in_conversation, brainVars, response, ttsVars, was_interrupted, running, queue>>

\* no wake phrase and no latch: the turn is ignored
RouteIgnore ==
    /\ pc = "route"
    /\ ~WakeDetected(text)
    /\ ~in_conversation
    /\ pc' = "listen"
    /\ TurnEnds
    /\ UNCHANGED <<harnessVars, now, in_conversation, last_interaction_time, brainVars, response, ttsVars,
                   was_interrupted, running, queue>>

(***************************************************************************)
(* main.py: process_interaction                                            *)
(***************************************************************************)

\* what the think call that returned o leaves behind
ThinkReturns(o, llm) ==
    /\ pending' = o.pending
    /\ response' = o.ret
    /\ turn' = [turn EXCEPT !.thought = TRUE, !.pendingBefore = pending, !.llm = o.llm,
                            !.raw = IF o.llm /\ llm # LlmRaises THEN llm ELSE "",
                            !.calls = o.calls, !.ret = o.ret, !.logged = o.logged,
                            !.fault = o.fault, !.backendRaised = o.llm /\ llm = LlmRaises,
                            !.escaped = o.raised]
    /\ pc' = IF o.exit THEN "exited" ELSE IF o.raised THEN "listen" ELSE "respond"

\* think calls that can be counted as in flight
MaxInFlight == 2

\* seeded fault: a think call that is started and not awaited
ThinkDone_NotAwaited(n) == n

\* the count of calls in flight when an awaited think call has returned
ThinkDone(n) == n - 1

\* line 179: process_interaction calls d_brain.think(user_input); the call
\* runs up to its first await (the backend call, or the end of the call)
ThinkCall ==
    /\ pc = "think"
    /\ in_flight < MaxInFlight
    /\ in_flight' = in_flight + 1
    /\ turn' = [turn EXCEPT !.commands = Append(@, command), !.afterBareWake = FALSE]
    /\ pc' = "thinking"
    /\ UNCHANGED <<harnessVars, now, loopVars, connected, provider, pending, response, ttsVars,
                   was_interrupted, running, queue>>

\* line 179: response = await d_brain.think(user_input) resumes
ThinkStep ==
    /\ pc = "thinking"
    /\ in_flight' = ThinkDone(in_flight)
    /\ \E llm \in Responses \cup {LlmRaises}, shell \in ShellOutcomes, fault \in BOOLEAN :
          ThinkReturns(Think(command, connected, provider, pending, llm, shell, fault), llm)
    /\ UNCHANGED <<harnessVars, now, loopVars, connected, provider, ttsVars, was_interrupted, running, queue>>

\* line 187
IsAction(clean_response) ==
    StartsWith(clean_response, "{") \/ Contains(clean_response, "\"tool\":")

\* lines 194-197: Hands has returned h; its result is spoken
ActionReturns(h) ==
    /\ turn' = [turn EXCEPT !.handsCalled = TRUE, !.hands = h.calls,
                            !.spoken = IF h.exit THEN @ ELSE Append(@, h.ret)]
    /\ IF h.exit THEN pc' = "exited" /\ UNCHANGED ttsVars
       ELSE pc' = "speak_action" /\ SpeakBegin(h.ret)

\* lines 189-197: the response is taken as an action, given to Hands, and the
\* result is spoken
RespondAction ==
    /\ pc = "respond"
    /\ IsAction(Strip(response))
    /\ ActionReturns(ExecuteAction(Strip(response)))
    /\ UNCHANGED <<harnessVars, now, loopVars, brainVars, response, was_interrupted, running, queue>>

\* lines 200-201 and 156: the action's result has been spoken
ActionSpoken ==
    /\ pc = "speak_action"
    /\ SpeakReturned
    /\ last_interaction_time' = now
    /\ pc' = "listen"
    /\ TurnEnds
    /\ response' = ""
    /\ UNCHANGED <<harnessVars, now, in_conversation, brainVars, ttsVars, was_interrupted, running, queue>>

\* lines 206-213: the response is prose; speak_with_interruption starts the
\* speak task and sleeps
RespondProse ==
    /\ pc = "respond"
    /\ ~IsAction(Strip(response))
    /\ SpeakBegin(Strip(response))
    /\ turn' = [turn EXCEPT !.spoken = Append(@, Strip(response))]
    /\ was_interrupted' = FALSE
    /\ pc' = "monitor"
    /\ UNCHANGED <<harnessVars, now, loopVars, brainVars, response, running, queue>>

\* TTSEngine.interrupt(), lines 44-51
Interrupt ==
    IF is_speaking THEN interrupt_requested' = TRUE /\ UNCHANGED <<is_speaking, playback>>
    ELSE UNCHANGED ttsVars

\* line 223: rms > 0.03
BargeIn(level) == level > 30

\* lines 215-231: one round of the monitor loop with a frame in the queue
MonitorPoll ==
    /\ pc = "monitor"
    /\ is_speaking
    /\ queue # <<>>
    /\ queue' = Tail(queue)
    /\ UNCHANGED running
    /\ IF BargeIn(Head(queue))
       THEN Interrupt /\ was_interrupted' = TRUE /\ pc' = "await_speak"
       ELSE UNCHANGED <<ttsVars, was_interrupted, pc>>
    /\ UNCHANGED <<harnessVars, now, loopVars, brainVars, response, turn>>

\* line 215: the loop ends when is_speaking is false
MonitorExit ==
    /\ pc = "monitor"
    /\ ~is_speaking
    /\ pc' = "await_speak"
    /\ UNCHANGED <<harnessVars, now, loopVars, brainVars, response, ttsVars, was_interrupted, running, queue, turn>>

\* seeded fault: no flush after a barge-in
clear_queue_Skipped(q) == q

\* AudioInput.clear_queue: every queued frame is taken out
clear_queue(q) == <<>>

\* lines 233-237 and 156: await speak_task; after a barge-in flush the queue
\* and start the cooldown, otherwise process_interaction returns
SpeakJoined ==
    /\ pc = "await_speak"
    /\ SpeakReturned
    /\ IF was_interrupted
       THEN /\ queue' = clear_queue(queue)
            /\ turn' = [turn EXCEPT !.cleared = Len(queue)]
            /\ pc' = "cooldown"
            /\ UNCHANGED <<last_interaction_time, text, command, current_time, response,
                           was_interrupted>>
       ELSE /\ last_interaction_time' = now
            /\ pc' = "listen"
            /\ TurnEnds
            /\ response' = ""
            /\ UNCHANGED <<queue, was_interrupted>>
    /\ UNCHANGED <<harnessVars, now, in_conversation, brainVars, ttsVars, running>>

\* lines 237 and 156: the 0.3 s of cooldown are over and process_interaction
\* returns
Cooldown ==
    /\ pc = "cooldown"
    /\ last_interaction_time' = now
    /\ pc' = "listen"
    /\ TurnEnds
    /\ response' = ""
    /\ was_interrupted' = FALSE
    /\ UNCHANGED <<harnessVars, now, in_conversation, brainVars, ttsVars, running, queue>>

\* main_loop never calls check_reflex
Next ==
    \/ Tick
    \/ ListenStart
    \/ AudioCallback
    \/ ListenFails
    \/ Listen
    \/ RouteWake
    \/ AckDone
    \/ RouteLatched
    \/ RouteIgnore
    \/ ThinkCall
    \/ ThinkStep
    \/ RespondAction
    \/ ActionSpoken
    \/ RespondProse
    \/ MonitorPoll
    \/ MonitorExit
    \/ SpeakJoined
    \/ Cooldown
    \/ Synthesize
    \/ PlayEnd

Spec == Init /\ [][Next]_vars

(***************************************************************************)
(* main.py lines 86-100: the loop while no command is heard: record_phrase *)
(* is called over and over and comes back, if at all, with a buffer that   *)
(* is too short or that holds no words                                     *)
(***************************************************************************)

\* record_phrase returns and the iteration ends at line 100 or 109
ListenNoise == Listen /\ pc' = "listen"

\* the loop is listening, the latch unset or just set by a wake phrase
IdleInit ==
    /\ pc = "listen"
    /\ now = 0
    /\ in_conversation \in BOOLEAN
    /\ last_interaction_time = 0
    /\ current_time = 0
    /\ text = ""
    /\ command = ""
    /\ connected = TRUE
    /\ provider = "groq"
    /\ pending = NoPending
    /\ in_flight = 0
    /\ response = ""
    /\ is_speaking = FALSE
    /\ interrupt_requested = FALSE
    /\ playback = "none"
    /\ was_interrupted = FALSE
    /\ running = FALSE
    /\ queue = <<>>
    /\ turn = EmptyTurn
    /\ reflexLog = <<>>
    /\ speakers = <<>>
    /\ mixer = 0
    /\ ttsCalls = NoTtsCalls
    /\ captures = <<>>
    /\ ears = NoLatch
    /\ music_process = FALSE
    /\ vad = NoVad
    /\ retry = NoRetry

IdleNext ==
    \/ Tick
    \/ ListenStart
    \/ AudioCallback
    \/ ListenFails
    \/ ListenNoise

\* time passes, the loop calls record_phrase again and the open stream
\* delivers blocks; record_phrase itself returns only after sound above the
\* threshold followed by silence (audio.py 89-113), which nothing forces
SpecIdle ==
    IdleInit /\ [][IdleNext]_vars
        /\ WF_vars(Tick) /\ WF_vars(ListenStart) /\ WF_vars(AudioCallback)

(***************************************************************************)
(* src/brain/reflex.py: ReflexSpine.check_reflex, called by tasks of its   *)
(* own while the engine it imports (src.senses.tts.d_tts) may be speaking  *)
(***************************************************************************)

\* check_reflex calls made in one run
MaxReflexCalls == 3

ReflexCommands ==
    {"stop", " Shut up ", "open youtube", "open notepad", "what time is it", "volume up",
     "open chrome"}

\* lines 47, 56, 77: what check_reflex says for command c (stripped)
ReflexSpeech(c) ==
    IF MatchesTime(c) THEN "It is 07:30 AM."
    ELSE "Opening " \o AfterFirst(Lower(c), "open ") \o "."

\* one finished call: its command, how it ended ("true", "false", "raised")
\* and TTSEngine._is_speaking when it ended
ReflexEntry(c, result) == [command |-> c, result |-> result, speaking |-> is_speaking]

\* lines 31-36: the stop pattern is tried first; TTSEngine defines interrupt()
\* and no stop(), so d_tts.stop() raises AttributeError out of check_reflex
ReflexStop ==
    /\ pc \in {"reflex_idle", "reflex_speak"}
    /\ Len(reflexLog) < MaxReflexCalls
    /\ \E c \in ReflexCommands :
          /\ MatchesStop(Strip(c))
          /\ reflexLog' = Append(reflexLog, ReflexEntry(c, "raised"))
    /\ UNCHANGED <<ttsHarnessVars, captures, ears, music_process, vad, retry, pc, now, loopVars, brainVars, response, ttsVars, was_interrupted, running, queue,
                   turn>>

\* lines 38-77: open a known URL or application, or tell the time: the
\* confirmation is spoken first
ReflexSpeak ==
    /\ pc = "reflex_idle"
    /\ Len(reflexLog) < MaxReflexCalls
    /\ \E c \in ReflexCommands :
          /\ ~MatchesStop(Strip(c))
          /\ MatchesOpenUrl(Strip(c)) \/ MatchesOpenApp(Strip(c)) \/ MatchesTime(Strip(c))
          /\ command' = c
          /\ SpeakBegin(ReflexSpeech(Strip(c)))
    /\ pc' = "reflex_speak"
    /\ UNCHANGED <<ttsHarnessVars, captures, ears, music_process, vad, retry, now, in_conversation, last_interaction_time, current_time, text, brainVars,
                   response, was_interrupted, running, queue, turn, reflexLog>>

\* lines 48-49, 58-70, 78: after the speech the target is opened (starting
\* the process may raise) and check_reflex returns True
ReflexSpoken ==
    /\ pc = "reflex_speak"
    /\ SpeakReturned
    /\ \E fault \in BOOLEAN :
          reflexLog' = Append(reflexLog,
                              ReflexEntry(command, IF fault /\ MatchesOpenApp(Strip(command))
                                                   THEN "raised" ELSE "true"))
    /\ pc' = "reflex_idle"
    /\ command' = ""
    /\ UNCHANGED <<ttsHarnessVars, captures, ears, music_process, vad, retry, now, in_conversation, last_interaction_time, current_time, text, brainVars,
                   response, ttsVars, was_interrupted, running, queue, turn>>

\* lines 80-97: the volume patterns start a process and return True; any
\* other command returns False
ReflexOther ==
    /\ pc = "reflex_idle"
    /\ Len(reflexLog) < MaxReflexCalls
    /\ \E c \in ReflexCommands :
          /\ ~MatchesStop(Strip(c))
          /\ ~(MatchesOpenUrl(Strip(c)) \/ MatchesOpenApp(Strip(c)) \/ MatchesTime(Strip(c)))
          /\ reflexLog' = Append(reflexLog,
                                 ReflexEntry(c, IF MatchesVolume(Strip(c)) THEN "true" ELSE "false"))
    /\ UNCHANGED <<ttsHarnessVars, captures, ears, music_process, vad, retry, pc, now, loopVars, brainVars, response, ttsVars, was_interrupted, running, queue,
                   turn>>

ReflexInit ==
    /\ pc = "reflex_idle"
    /\ now = 0
    /\ in_conversation = FALSE
    /\ last_interaction_time = 0
    /\ current_time = 0
    /\ text = ""
    /\ command = ""
    /\ connected = TRUE
    /\ provider = "groq"
    /\ pending = NoPending
    /\ in_flight = 0
    /\ response = ""
    /\ is_speaking = FALSE
    /\ interrupt_requested = FALSE
    /\ playback = "none"
    /\ was_interrupted = FALSE
    /\ running = FALSE
    /\ queue = <<>>
    /\ turn = EmptyTurn
    /\ reflexLog = <<>>
    /\ speakers = <<>>
    /\ mixer = 0
    /\ ttsCalls = NoTtsCalls
    /\ captures = <<>>
    /\ ears = NoLatch
    /\ music_process = FALSE
    /\ vad = NoVad
    /\ retry = NoRetry

ReflexNext ==
    \/ ReflexStop
    \/ ReflexSpeak
    \/ ReflexSpoken
    \/ ReflexOther
    \/ Synthesize
    \/ PlayEnd

SpecReflex == ReflexInit /\ [][ReflexNext]_vars

(***************************************************************************)
(* src/senses/tts.py: TTSEngine with the tasks that call speak() and       *)
(* interrupt() on it.  A caller is "idle", inside speak() at the synthesis *)
(* ("synth") or in _play_audio's loop ("play"), or speak() has just        *)
(* returned to it: "rejected" (text refused at line 55), "finished" (the   *)
(* audio ran out), "interrupted", or "failed" (an exception was caught).   *)
(***************************************************************************)

\* speak and interrupt calls made in one run
MaxSpeakCalls == 3
MaxInterrupts == 2

SpeechTexts == {"", " a ", "Hi", "Hello Sheriff. Ready to ship?"}

Active(c) == speakers[c] \in {"synth", "play"}
Returned == {"rejected", "finished", "interrupted", "failed"}

engineVars == <<is_speaking, interrupt_requested, mixer>>

\* seeded fault: interrupt() without the test of line 44
InterruptActs_Always(speaking) == TRUE

\* interrupt, line 44: if self._is_speaking
InterruptActs(speaking) == speaking

\* seeded fault: the playback loop does not look at the interrupt request
PollEnds_IgnoresRequest(busy, requested) == ~busy

\* _play_audio, lines 104-108: the loop ends when the mixer is not busy, or
\* at the break that follows the stop of an interrupted playback
PollEnds(busy, requested) == ~busy \/ requested

\* seeded fault: speak() without its finally clause
SpeakFinally_Missing == TRUE

\* speak, lines 95-96: finally: self._is_speaking = False
SpeakFinally == FALSE

mainVars ==
    <<pc, now, loopVars, brainVars, response, playback, was_interrupted, running, queue, turn,
      reflexLog, captures, ears, music_process, vad, retry>>

\* speak(text), lines 55-59: a text of fewer than two non-blank characters
\* is refused; otherwise the interrupt request is cleared and _is_speaking set
TtsSpeak ==
    /\ ttsCalls.speaks < MaxSpeakCalls
    /\ \E c \in DOMAIN speakers, t \in SpeechTexts :
          /\ speakers[c] = "idle"
          /\ IF SpeakAccepts(t)
             THEN /\ interrupt_requested' = FALSE
                  /\ is_speaking' = TRUE
                  /\ speakers' = [speakers EXCEPT ![c] = "synth"]
             ELSE /\ speakers' = [speakers EXCEPT ![c] = "rejected"]
                  /\ UNCHANGED <<is_speaking, interrupt_requested>>
    /\ ttsCalls' = [ttsCalls EXCEPT !.speaks = @ + 1]
    /\ UNCHANGED <<mixer, mainVars>>

\* lines 63-88 and 100-102: the synthesis ends and the audio is loaded and
\* played (load replaces what the mixer was playing); or the synthesis or
\* the load fails and the finally clause (95-96) clears _is_speaking
TtsSynthesize ==
    /\ \E c \in DOMAIN speakers, ok \in BOOLEAN :
          /\ speakers[c] = "synth"
          /\ IF ok
             THEN /\ mixer' = c
                  /\ speakers' = [speakers EXCEPT ![c] = "play"]
                  /\ UNCHANGED is_speaking
             ELSE /\ is_speaking' = SpeakFinally
                  /\ speakers' = [speakers EXCEPT ![c] = "failed"]
                  /\ UNCHANGED mixer
    /\ UNCHANGED <<interrupt_requested, ttsCalls, mainVars>>

\* the audio being played runs out
TtsAudioEnds ==
    /\ mixer # 0
    /\ mixer' = 0
    /\ UNCHANGED <<is_speaking, interrupt_requested, speakers, ttsCalls, mainVars>>

\* _play_audio, lines 104-110, and speak's finally clause: a poll finds the
\* mixer idle, or finds it busy with the interrupt requested and stops it;
\* speak() returns with _is_speaking cleared.  (A poll that finds the mixer
\* busy and no request sleeps 0.05 s and changes nothing.)
TtsPoll ==
    /\ \E c \in DOMAIN speakers :
          /\ speakers[c] = "play"
          /\ PollEnds(mixer # 0, interrupt_requested)
          /\ speakers' = [speakers EXCEPT ![c] = IF interrupt_requested THEN "interrupted" ELSE "finished"]
    /\ mixer' = 0
    /\ is_speaking' = SpeakFinally
    /\ UNCHANGED <<interrupt_requested, ttsCalls, mainVars>>

\* the caller goes on after speak() has returned
TtsReturn ==
    /\ \E c \in DOMAIN speakers :
          /\ speakers[c] \in Returned
          /\ speakers' = [speakers EXCEPT ![c] = "idle"]
    /\ UNCHANGED <<engineVars, ttsCalls, mainVars>>

\* interrupt(), lines 42-51
TtsInterrupt ==
    /\ ttsCalls.interrupts < MaxInterrupts
    /\ ttsCalls' = [ttsCalls EXCEPT !.interrupts = @ + 1]
    /\ IF InterruptActs(is_speaking)
       THEN interrupt_requested' = TRUE /\ mixer' = 0 /\ UNCHANGED is_speaking
       ELSE UNCHANGED engineVars
    /\ UNCHANGED <<speakers, mainVars>>

TtsIdle ==
    /\ pc = "tts_harness"
    /\ now = 0
    /\ in_conversation = FALSE
    /\ last_interaction_time = 0
    /\ current_time = 0
    /\ text = ""
    /\ command = ""
    /\ connected = TRUE
    /\ provider = "groq"
    /\ pending = NoPending
    /\ in_flight = 0
    /\ response = ""
    /\ is_speaking = FALSE
    /\ interrupt_requested = FALSE
    /\ playback = "none"
    /\ was_interrupted = FALSE
    /\ running = FALSE
    /\ queue = <<>>
    /\ turn = EmptyTurn
    /\ reflexLog = <<>>
    /\ mixer = 0
    /\ ttsCalls = NoTtsCalls
    /\ captures = <<>>
    /\ ears = NoLatch
    /\ music_process = FALSE
    /\ vad = NoVad
    /\ retry = NoRetry

TtsNext ==
    \/ TtsSpeak
    \/ TtsSynthesize
    \/ TtsAudioEnds
    \/ TtsPoll
    \/ TtsReturn
    \/ TtsInterrupt

\* one task speaks at a time, as in main.py, where every speak() is awaited
\* (129, 197, 233) before the next one is started
TtsInit == TtsIdle /\ speakers = <<"idle">>

SpecTTS == TtsInit /\ [][TtsNext]_vars

\* the synthesis call comes back and the playback loop polls every 0.05 s;
\* nothing is assumed about how long the audio lasts
SpecTTSLive == SpecTTS /\ WF_vars(TtsSynthesize) /\ WF_vars(TtsPoll)

\* two tasks that call speak() without waiting for each other
TtsInit2 == TtsIdle /\ speakers = <<"idle", "idle">>

SpecTTS2 == TtsInit2 /\ [][TtsNext]_vars

(***************************************************************************)
(* src/senses/listener.py: Listener.start, the listening loop of the       *)
(* Listener, with process_command                                          *)
(***************************************************************************)

\* record_phrase calls made in one run
MaxCaptures == 2

\* config.py, line 77
wake_word == "jarvis"

Capture(frames, passed) == [frames |-> frames, transcribed |-> passed]

listenerFrame ==
    <<now, in_conversation, last_interaction_time, current_time, in_flight, connected, provider,
      was_interrupted, running, queue, turn, reflexLog, ttsHarnessVars, ears,
      music_process, vad, retry>>

\* lines 37-74: one round of the loop up to the follow-up capture or the
\* call of process_command
ListenerCapture ==
    /\ pc = "lsn_listen"
    /\ Len(captures) < MaxCaptures
    /\ \E frames \in FrameCounts, heard \in Utterances :
          IF TooShort(frames)
          THEN /\ captures' = Append(captures, Capture(frames, FALSE))
               /\ UNCHANGED <<pc, text, command>>
          ELSE /\ captures' = Append(captures, Capture(frames, TRUE))
               /\ text' = heard
               /\ IF heard # "" /\ Contains(Lower(heard), wake_word)
                  THEN /\ command' = Strip(AfterFirst(Lower(heard), wake_word))
                       /\ pc' = IF command' = "" THEN "lsn_followup" ELSE "lsn_command"
                  ELSE UNCHANGED <<pc, command>>
    /\ UNCHANGED <<listenerFrame, pending, response, ttsVars>>

\* lines 64-75: the follow-up capture after a wake phrase with no command
ListenerFollowUp ==
    /\ pc = "lsn_followup"
    /\ \E frames \in FrameCounts, heard \in Utterances :
          /\ captures' = Append(captures, Capture(frames, TRUE))
          /\ command' = heard
          /\ pc' = IF heard # "" THEN "lsn_command" ELSE "lsn_listen"
    /\ UNCHANGED <<listenerFrame, text, pending, response, ttsVars>>

\* what the think call that returned o leaves behind in process_command
ListenerThinkReturns(o) ==
    /\ pending' = o.pending
    /\ response' = o.ret
    /\ pc' = IF o.exit THEN "exited" ELSE IF o.raised THEN "lsn_listen" ELSE "lsn_respond"

\* process_command, lines 95 and 83-85: think returns, or what it lets out
\* is caught by the loop
ListenerThink ==
    /\ pc = "lsn_command"
    /\ \E llm \in Responses \cup {LlmRaises}, shell \in ShellOutcomes, fault \in BOOLEAN :
          ListenerThinkReturns(Think(command, connected, provider, pending, llm, shell, fault))
    /\ UNCHANGED <<listenerFrame, captures, text, command, ttsVars>>

\* lines 101-105: Hands has returned h; its result is spoken
ListenerActionReturns(h) ==
    IF h.exit THEN pc' = "exited" /\ UNCHANGED ttsVars
    ELSE pc' = "lsn_speak" /\ SpeakBegin(h.ret)

\* process_command, lines 98-112: the action is run and its result spoken,
\* or the response is spoken
ListenerRespond ==
    /\ pc = "lsn_respond"
    /\ IF StartsWith(Strip(response), "{") \/ StartsWith(Strip(response), Fence \o "json")
       THEN ListenerActionReturns(ExecuteAction(Strip(response)))
       ELSE pc' = "lsn_speak" /\ SpeakBegin(response)
    /\ UNCHANGED <<listenerFrame, captures, text, command, pending, response>>

\* lines 105, 112 and 75: the awaited speak has returned
ListenerSpoken ==
    /\ pc = "lsn_speak"
    /\ SpeakReturned
    /\ pc' = "lsn_listen"
    /\ UNCHANGED <<listenerFrame, captures, text, command, pending, response, ttsVars>>

ListenerInit ==
    /\ pc = "lsn_listen"
    /\ now = 0
    /\ in_conversation = FALSE
    /\ last_interaction_time = 0
    /\ current_time = 0
    /\ text = ""
    /\ command = ""
    /\ connected = TRUE
    /\ provider = "groq"
    /\ pending = NoPending
    /\ in_flight = 0
    /\ response = ""
    /\ is_speaking = FALSE
    /\ interrupt_requested = FALSE
    /\ playback = "none"
    /\ was_interrupted = FALSE
    /\ running = FALSE
    /\ queue = <<>>
    /\ turn = EmptyTurn
    /\ reflexLog = <<>>
    /\ speakers = <<>>
    /\ mixer = 0
    /\ ttsCalls = NoTtsCalls
    /\ captures = <<>>
    /\ ears = NoLatch
    /\ music_process = FALSE
    /\ vad = NoVad
    /\ retry = NoRetry

ListenerNext ==
    \/ ListenerCapture
    \/ ListenerFollowUp
    \/ ListenerThink
    \/ ListenerRespond
    \/ ListenerSpoken
    \/ Synthesize
    \/ PlayEnd

SpecListener == ListenerInit /\ [][ListenerNext]_vars

(***************************************************************************)
(* main.py lines 120-139: the wake-phrase test and the extraction of the   *)
(* command, applied to transcriptions that hold a wake-phrase variant      *)
(***************************************************************************)

WakePrefixes == {"", "Hey "}
WakeTails == {"", " open chrome", ", stop.", " Open Spotify ", " ask darius"}

\* transcriptions in which a variant is said, with or without a command
WakeTexts ==
    {p \o WakeWordVariants[k] \o t :
        p \in WakePrefixes, k \in DOMAIN WakeWordVariants, t \in WakeTails}

\* lines 120-139: wake_detected and command are computed from the text
WakeRoute ==
    /\ pc = "wake_heard"
    /\ IF WakeDetected(text)
       THEN command' = ExtractCommand(text) /\ pc' = "wake_trigger"
       ELSE command' = "" /\ pc' = "wake_none"
    /\ UNCHANGED <<harnessVars, now, in_conversation, last_interaction_time, current_time, text,
                   brainVars, response, ttsVars, was_interrupted, running, queue, turn>>

WakeInit ==
    /\ pc = "wake_heard"
    /\ text \in WakeTexts
    /\ now = 0
    /\ in_conversation = FALSE
    /\ last_interaction_time = 0
    /\ current_time = 0
    /\ command = ""
    /\ connected = TRUE
    /\ provider = "groq"
    /\ pending = NoPending
    /\ in_flight = 0
    /\ response = ""
    /\ is_speaking = FALSE
    /\ interrupt_requested = FALSE
    /\ playback = "none"
    /\ was_interrupted = FALSE
    /\ running = FALSE
    /\ queue = <<>>
    /\ turn = EmptyTurn
    /\ reflexLog = <<>>
    /\ speakers = <<>>
    /\ mixer = 0
    /\ ttsCalls = NoTtsCalls
    /\ captures = <<>>
    /\ ears = NoLatch
    /\ music_process = FALSE
    /\ vad = NoVad
    /\ retry = NoRetry

SpecWake == WakeInit /\ [][WakeRoute]_vars

(***************************************************************************)
(* src/brain/llm.py with src/memory/logger.py: think calls made one after  *)
(* the other, with a memory log that can fail                              *)
(***************************************************************************)

\* think calls made in one run
MaxThinkCalls == 2

memoryFrame ==
    <<now, in_conversation, last_interaction_time, current_time, text, connected, provider,
      in_flight, ttsVars, was_interrupted, running, queue, harnessVars>>

\* what the think call that returned o leaves behind; ref is what the same
\* call returns when the memory log works
MemoryThinkReturns(o, ref, llm, mem) ==
    /\ pending' = o.pending
    /\ response' = o.ret
    /\ turn' = [turn EXCEPT !.thought = TRUE, !.pendingBefore = pending, !.llm = o.llm,
                            !.calls = o.calls, !.ret = o.ret, !.logged = o.logged,
                            !.escaped = o.raised, !.memory = mem, !.wouldReturn = ref.ret,
                            !.commands = Append(@, command)]
    /\ pc' = IF o.exit THEN "exited" ELSE "mem_returned"

\* llm.py lines 174-226: one think call
MemoryThink ==
    /\ pc = "mem_think"
    /\ \E llm \in Responses \cup {LlmRaises}, shell \in ShellOutcomes, mem \in MemoryOutcomes :
          MemoryThinkReturns(
              ThinkMem(command, connected, provider, pending, llm, shell, FALSE, mem),
              Think(command, connected, provider, pending, llm, shell, FALSE), llm, mem)
    /\ UNCHANGED <<memoryFrame, command>>

\* the caller makes its next call
MemoryAgain ==
    /\ pc = "mem_returned"
    /\ Len(turn.commands) < MaxThinkCalls
    /\ \E c \in {"open chrome", "yes"} : command' = c
    /\ turn' = [EmptyTurn EXCEPT !.commands = turn.commands]
    /\ response' = ""
    /\ pc' = "mem_think"
    /\ UNCHANGED <<memoryFrame, pending>>

MemoryInit ==
    /\ pc = "mem_think"
    /\ command = "open chrome"
    /\ now = 0
    /\ in_conversation = FALSE
    /\ last_interaction_time = 0
    /\ current_time = 0
    /\ text = ""
    /\ connected = TRUE
    /\ provider \in Providers
    /\ pending = NoPending
    /\ in_flight = 0
    /\ response = ""
    /\ is_speaking = FALSE
    /\ interrupt_requested = FALSE
    /\ playback = "none"
    /\ was_interrupted = FALSE
    /\ running = FALSE
    /\ queue = <<>>
    /\ turn = EmptyTurn
    /\ reflexLog = <<>>
    /\ speakers = <<>>
    /\ mixer = 0
    /\ ttsCalls = NoTtsCalls
    /\ captures = <<>>
    /\ ears = NoLatch
    /\ music_process = FALSE
    /\ vad = NoVad
    /\ retry = NoRetry

MemoryNext ==
    \/ MemoryThink
    \/ MemoryAgain

SpecMemory == MemoryInit /\ [][MemoryNext]_vars

(***************************************************************************)
(* The places where a tool waits for a shell process: llm.py _run_command  *)
(* and _open_app, system_ops.py execute_powershell, music.py stop_music,   *)
(* hands.py Hands._app                                                     *)
(***************************************************************************)

\* seconds: the clock's step and its last value
ShellTickStep == 10
MaxShellTime == 50

\* llm.py line 486 and system_ops.py line 26: timeout=30
timeout == 30

\* the call sites that wait for the process they start: subprocess.run
\* (llm.py 485, system_ops.py 22, music.py 84 and 88) and os.system
\* (llm.py 469, hands.py 190)
ShellSites == {"_run_command", "_handle_confirmation", "execute_powershell",
               "stop_music", "_open_app", "Hands._app"}

\* the call sites that pass timeout=30 to subprocess.run; _handle_confirmation
\* runs the pending command with _run_command (line 504)
HasDeadline(site) == site \in {"_run_command", "_handle_confirmation", "execute_powershell"}

ShellCommands == {"git status", "ping -t localhost"}

\* seconds a started process runs when it ends by itself
ShellRunTimes == {0, 20, 40}

shellFrame ==
    <<in_conversation, last_interaction_time, current_time, text, connected, provider,
      pending, in_flight, ttsVars, was_interrupted, running, queue, harnessVars>>

Waited == now - turn.shell.started

ProcessEnded == turn.shell.ends /\ Waited >= turn.shell.needs

DeadlinePassed == HasDeadline(turn.shell.site) /\ Waited >= timeout

\* what the call site returns for the outcome `shell` of its process
ShellSiteResult(site, cmd, shell) ==
    CASE site = "_run_command" -> RunCommandResult(cmd, shell)
      [] site = "_handle_confirmation" -> "Done. " \o Prefix(RunCommandResult(cmd, shell), 100)
      [] site = "execute_powershell" -> PowershellResult(cmd, shell)
      [] site = "stop_music" -> "Music stopped, Sheriff."
      [] site = "_open_app" -> "Opening " \o cmd \o "."
      [] OTHER -> "Closing " \o cmd \o "."

\* a tool starts a process and waits for it
ShellCall ==
    /\ pc = "shell_idle"
    /\ \E site \in ShellSites, cmd \in ShellCommands, ends \in BOOLEAN, needs \in ShellRunTimes :
          /\ ends \/ needs = 0
          /\ command' = cmd
          /\ turn' = [EmptyTurn EXCEPT !.shell = [site |-> site, ends |-> ends, needs |-> needs,
                                                 started |-> now],
                                       !.commands = Append(turn.commands, cmd)]
    /\ response' = ""
    /\ pc' = "shell_waiting"
    /\ UNCHANGED <<shellFrame, now>>

\* time passes while the call waits
ShellWait ==
    /\ pc = "shell_waiting"
    /\ ~ProcessEnded
    /\ ~DeadlinePassed
    /\ now + ShellTickStep <= MaxShellTime
    /\ now' = now + ShellTickStep
    /\ UNCHANGED <<shellFrame, pc, command, response, turn>>

\* the process ends and the call returns its result
ShellReturns ==
    /\ pc = "shell_waiting"
    /\ ProcessEnded
    /\ response' = ShellSiteResult(turn.shell.site, command, ShellPrints(""))
    /\ pc' = "shell_returned"
    /\ UNCHANGED <<shellFrame, now, command, turn>>

\* subprocess.run raises TimeoutExpired at the deadline: _run_command lines
\* 492-493, execute_powershell lines 34-35
ShellTimeout ==
    /\ pc = "shell_waiting"
    /\ ~ProcessEnded
    /\ DeadlinePassed
    /\ response' = ShellSiteResult(turn.shell.site, command, ShellTimesOut)
    /\ pc' = "shell_returned"
    /\ UNCHANGED <<shellFrame, now, command, turn>>

\* the turn completes and a later tool call is made
ShellAgain ==
    /\ pc = "shell_returned"
    /\ Len(turn.commands) < MaxThinkCalls
    /\ pc' = "shell_idle"
    /\ response' = ""
    /\ turn' = [EmptyTurn EXCEPT !.commands = turn.commands]
    /\ UNCHANGED <<shellFrame, now, command>>

ShellInit ==
    /\ pc = "shell_idle"
    /\ command = ""
    /\ now = 0
    /\ in_conversation = FALSE
    /\ last_interaction_time = 0
    /\ current_time = 0
    /\ text = ""
    /\ connected = TRUE
    /\ provider = "groq"
    /\ pending = NoPending
    /\ in_flight = 0
    /\ response = ""
    /\ is_speaking = FALSE
    /\ interrupt_requested = FALSE
    /\ playback = "none"
    /\ was_interrupted = FALSE
    /\ running = FALSE
    /\ queue = <<>>
    /\ turn = EmptyTurn
    /\ reflexLog = <<>>
    /\ speakers = <<>>
    /\ mixer = 0
    /\ ttsCalls = NoTtsCalls
    /\ captures = <<>>
    /\ ears = NoLatch
    /\ music_process = FALSE
    /\ vad = NoVad
    /\ retry = NoRetry

ShellNext ==
    \/ ShellCall
    \/ ShellWait
    \/ ShellReturns
    \/ ShellTimeout
    \/ ShellAgain

SpecShell == ShellInit /\ [][ShellNext]_vars

(***************************************************************************)
(* main.py lines 145-156 and 179 with src/tools/music.py: commands heard   *)
(* in an open conversation while music may be playing                      *)
(***************************************************************************)

\* commands heard in one run
MaxMusicTurns == 3

MusicTexts == {"play lo-fi beats", "open chrome", "stop", "ok"}

MusicResponses ==
    {"{\"tool\":\"play_music\",\"song\":\"lo-fi beats\"}", "{\"tool\":\"stop_music\"}",
     "{\"tool\":\"open_app\",\"app\":\"chrome\"}", "Certainly, Sheriff."}

\* music.py lines 16-95: _music_process after a tool call that made `calls`:
\* play_music stops the music, then starts it; stop_music stops it
MusicAfter(music, calls) ==
    IF \E i \in DOMAIN calls : calls[i].h = "play_music" THEN TRUE
    ELSE IF \E i \in DOMAIN calls : calls[i].h = "stop_music" THEN FALSE
    ELSE music

musicFrame ==
    <<now, in_conversation, last_interaction_time, current_time, connected, provider, in_flight,
      ttsVars, was_interrupted, running, queue, reflexLog, ttsHarnessVars, captures, ears, vad,
      retry>>

\* main.py lines 145-156: an utterance is heard in an open conversation
MusicHeard ==
    /\ pc = "music_listen"
    /\ Len(turn.commands) < MaxMusicTurns
    /\ \E heard \in MusicTexts :
          /\ text' = heard
          /\ IF LongEnough(heard)
             THEN /\ command' = heard
                  /\ turn' = [EmptyTurn EXCEPT !.commands = Append(turn.commands, heard),
                                               !.wasLatched = TRUE]
                  /\ pc' = "music_think"
             ELSE /\ command' = ""
                  /\ turn' = [EmptyTurn EXCEPT !.commands = turn.commands, !.wasLatched = TRUE]
                  /\ pc' = "music_listen"
    /\ response' = ""
    /\ UNCHANGED <<musicFrame, pending, music_process>>

\* what the think call that returned o leaves behind
MusicThinkReturns(o) ==
    /\ pending' = o.pending
    /\ response' = o.ret
    /\ music_process' = MusicAfter(music_process, o.calls)
    /\ turn' = [turn EXCEPT !.thought = TRUE, !.llm = o.llm, !.calls = o.calls, !.ret = o.ret,
                            !.logged = o.logged]

\* main.py line 179: process_interaction gives the command to think
MusicThink ==
    /\ pc = "music_think"
    /\ \E llm \in MusicResponses, fault \in BOOLEAN :
          MusicThinkReturns(Think(command, connected, provider, pending, llm, ShellPrints(""),
                                  fault))
    /\ pc' = "music_listen"
    /\ UNCHANGED <<musicFrame, text, command>>

MusicInit ==
    /\ pc = "music_listen"
    /\ command = ""
    /\ now = 0
    /\ in_conversation = TRUE
    /\ last_interaction_time = 0
    /\ current_time = 0
    /\ text = ""
    /\ connected = TRUE
    /\ provider = "groq"
    /\ pending = NoPending
    /\ in_flight = 0
    /\ response = ""
    /\ is_speaking = FALSE
    /\ interrupt_requested = FALSE
    /\ playback = "none"
    /\ was_interrupted = FALSE
    /\ running = FALSE
    /\ queue = <<>>
    /\ turn = EmptyTurn
    /\ reflexLog = <<>>
    /\ speakers = <<>>
    /\ mixer = 0
    /\ ttsCalls = NoTtsCalls
    /\ captures = <<>>
    /\ ears = NoLatch
    /\ music_process = FALSE
    /\ vad = NoVad
    /\ retry = NoRetry

MusicNext ==
    \/ MusicHeard
    \/ MusicThink

SpecMusic == MusicInit /\ [][MusicNext]_vars

(***************************************************************************)
(* src/senses/audio.py: listen and record_phrase, frame by frame, with the *)
(* clock in half seconds                                                   *)
(***************************************************************************)

VadTickStep == 2
MaxVadTime == 10

\* frames the stream's callback delivers in one run
MaxVadFrames == 5

\* record_phrase calls in one run
MaxPhrases == 2

\* audio.py line 29: 0.01, in thousandths
vad_threshold == 10

\* config.py line 131: 1.5 seconds
silence_duration == 3

\* a frame: its RMS level, when the callback delivered it, and whether that
\* was after listen had left its loop (line 109) and before _running was
\* cleared (line 118)
Frame(level, at, late) == [level |-> level, at |-> at, late |-> late]

\* line 92
Loud(frame) == frame.level > vad_threshold

\* seeded fault: the first silent frame ends the utterance
SilenceOver_AtOnce(elapsed_silence) == TRUE

\* line 106
SilenceOver(elapsed_silence) == elapsed_silence > silence_duration

\* lines 101-102
SilenceStart == IF vad.timing THEN vad.silence_start_time ELSE now

vadFrame ==
    <<in_conversation, last_interaction_time, current_time, text, command, brainVars, response,
      ttsVars, was_interrupted, turn, reflexLog, ttsHarnessVars, captures, ears, music_process,
      retry>>

\* lines 65-79 and 126: record_phrase starts listen, which opens the stream
VadStart ==
    /\ pc = "vad_idle"
    /\ Len(vad.phrases) < MaxPhrases
    /\ running' = TRUE
    /\ vad' = [vad EXCEPT !.is_speaking = FALSE, !.timing = FALSE, !.silence_start_time = 0,
                          !.frames = <<>>, !.seen = <<>>]
    /\ pc' = "vad_listening"
    /\ UNCHANGED <<vadFrame, now, queue>>

\* lines 48-58: the callback of the open stream delivers a frame
VadCallback ==
    /\ pc \in {"vad_listening", "vad_closing"}
    /\ running
    /\ Len(queue) < MaxResidual
    /\ vad.delivered < MaxVadFrames
    /\ \E level \in FrameLevels : queue' = put_nowait(queue, Frame(level, now, pc = "vad_closing"))
    /\ vad' = [vad EXCEPT !.delivered = @ + 1]
    /\ UNCHANGED <<vadFrame, pc, now, running>>

VadTick ==
    /\ pc \in {"vad_listening", "vad_idle"}
    /\ now + VadTickStep <= MaxVadTime
    /\ now' = now + VadTickStep
    /\ UNCHANGED <<vadFrame, pc, running, queue, vad>>

\* lines 84-116 and 127-128: listen takes a frame from the queue
VadGet ==
    /\ pc = "vad_listening"
    /\ queue # <<>>
    /\ queue' = Tail(queue)
    /\ LET audio_block == Head(queue)
           taken == [vad EXCEPT !.seen = Append(@, audio_block)]
       IN  IF Loud(audio_block)
           THEN /\ vad' = [taken EXCEPT !.is_speaking = TRUE, !.timing = FALSE,
                                        !.frames = Append(@, audio_block)]
                /\ pc' = pc
           ELSE IF ~vad.is_speaking
           THEN /\ vad' = taken
                /\ pc' = pc
           ELSE IF SilenceOver(now - SilenceStart)
           THEN /\ vad' = [taken EXCEPT !.is_speaking = FALSE, !.timing = TRUE,
                                        !.silence_start_time = SilenceStart, !.left = now]
                /\ pc' = "vad_closing"
           ELSE /\ vad' = [taken EXCEPT !.timing = TRUE, !.silence_start_time = SilenceStart,
                                        !.frames = Append(@, audio_block)]
                /\ pc' = pc
    /\ UNCHANGED <<vadFrame, now, running>>

\* lines 79 and 118-135: the stream is closed, _running is cleared and
\* record_phrase returns its buffer
VadClose ==
    /\ pc = "vad_closing"
    /\ running' = FALSE
    /\ vad' = [vad EXCEPT !.phrases = Append(@, vad.frames)]
    /\ pc' = "vad_idle"
    /\ UNCHANGED <<vadFrame, now, queue>>

VadInit ==
    /\ pc = "vad_idle"
    /\ command = ""
    /\ now = 0
    /\ in_conversation = FALSE
    /\ last_interaction_time = 0
    /\ current_time = 0
    /\ text = ""
    /\ connected = TRUE
    /\ provider = "groq"
    /\ pending = NoPending
    /\ in_flight = 0
    /\ response = ""
    /\ is_speaking = FALSE
    /\ interrupt_requested = FALSE
    /\ playback = "none"
    /\ was_interrupted = FALSE
    /\ running = FALSE
    /\ queue = <<>>
    /\ turn = EmptyTurn
    /\ reflexLog = <<>>
    /\ speakers = <<>>
    /\ mixer = 0
    /\ ttsCalls = NoTtsCalls
    /\ captures = <<>>
    /\ ears = NoLatch
    /\ music_process = FALSE
    /\ vad = NoVad
    /\ retry = NoRetry

VadNext ==
    \/ VadStart
    \/ VadCallback
    \/ VadTick
    \/ VadGet
    \/ VadClose

SpecVad == VadInit /\ [][VadNext]_vars

(***************************************************************************)
(* src/utils/async_helpers.py: async_retry                                 *)
(***************************************************************************)

MaxRetries == 2

RetryDelays == {1, 2}
RetryBackoffs == {1, 2, 3}

\* what one call of func does: it returns, it raises an exception of the
\* `exceptions` tuple, or it raises another exception
FuncOutcomes == {"returns", "raises_listed", "raises_other"}

retryFrame ==
    <<now, in_conversation, last_interaction_time, current_time, text, command, brainVars,
      response, ttsVars, was_interrupted, running, queue, turn, reflexLog, ttsHarnessVars,
      captures, ears, music_process, vad>>

\* seeded fault: a sleep after every failed attempt
SleepsAgain_Always(attempt, max_retries) == TRUE

\* line 92
SleepsAgain(attempt, max_retries) == attempt < max_retries

\* lines 83-85: the wrapper is called
RetryCall ==
    /\ pc = "retry_idle"
    /\ \E n \in 0..MaxRetries, d \in RetryDelays, b \in RetryBackoffs :
          retry' = [NoRetry EXCEPT !.max_retries = n, !.delay = d, !.backoff = b,
                                   !.current_delay = d]
    /\ pc' = "retry_attempt"
    /\ UNCHANGED retryFrame

\* line 87: the next round of the loop, or line 96 when the range is used up
RetryNextRound(r) ==
    IF r.attempt < r.max_retries
    THEN /\ retry' = [r EXCEPT !.attempt = @ + 1]
         /\ pc' = "retry_attempt"
    ELSE /\ retry' = [r EXCEPT !.ended = <<"raised", r.last_exception>>]
         /\ pc' = "retry_ended"

\* lines 88-92: func is called and returns or raises
RetryAttempt ==
    /\ pc = "retry_attempt"
    /\ \E outcome \in FuncOutcomes :
          LET k == Len(retry.outcomes) + 1
              called == [retry EXCEPT !.outcomes = Append(@, outcome)]
          IN  CASE outcome = "returns" ->
                      /\ retry' = [called EXCEPT !.ended = <<"returned", k>>]
                      /\ pc' = "retry_ended"
                [] outcome = "raises_other" ->
                      /\ retry' = [called EXCEPT !.ended = <<"raised", <<"other", k>>>>]
                      /\ pc' = "retry_ended"
                [] OTHER ->
                      IF SleepsAgain(retry.attempt, retry.max_retries)
                      THEN /\ retry' = [called EXCEPT !.last_exception = <<"listed", k>>]
                           /\ pc' = "retry_sleep"
                      ELSE RetryNextRound([called EXCEPT !.last_exception = <<"listed", k>>])
    /\ UNCHANGED retryFrame

\* lines 93-94: the sleep is over
RetrySleep ==
    /\ pc = "retry_sleep"
    /\ RetryNextRound([retry EXCEPT !.sleeps = Append(@, retry.current_delay),
                                    !.current_delay = @ * retry.backoff])
    /\ UNCHANGED retryFrame

RetryInit ==
    /\ pc = "retry_idle"
    /\ command = ""
    /\ now = 0
    /\ in_conversation = FALSE
    /\ last_interaction_time = 0
    /\ current_time = 0
    /\ text = ""
    /\ connected = TRUE
    /\ provider = "groq"
    /\ pending = NoPending
    /\ in_flight = 0
    /\ response = ""
    /\ is_speaking = FALSE
    /\ interrupt_requested = FALSE
    /\ playback = "none"
    /\ was_interrupted = FALSE
    /\ running = FALSE
    /\ queue = <<>>
    /\ turn = EmptyTurn
    /\ reflexLog = <<>>
    /\ speakers = <<>>
    /\ mixer = 0
    /\ ttsCalls = NoTtsCalls
    /\ captures = <<>>
    /\ ears = NoLatch
    /\ music_process = FALSE
    /\ vad = NoVad
    /\ retry = NoRetry

RetryNext ==
    \/ RetryCall
    \/ RetryAttempt
    \/ RetrySleep

SpecRetry == RetryInit /\ [][RetryNext]_vars

(***************************************************************************)
(* src/senses/ears_v2.py: the latch of NaturalEars, with the clock         *)
(***************************************************************************)

\* the clock runs to here, in seconds
MaxEarsTime == 10

\* line 44
latch_timeout == 8

earsFrame ==
    <<pc, in_conversation, last_interaction_time, current_time, text, command, brainVars,
      response, ttsVars, was_interrupted, running, queue, turn, reflexLog, ttsHarnessVars,
      captures, music_process, vad, retry>>

\* lines 47-51
activate_latch ==
    /\ ears' = [latch_active |-> TRUE, latch_end_time |-> now + latch_timeout, ret |-> "none"]
    /\ UNCHANGED <<now, earsFrame>>

\* line 58: time.time() > self.latch_end_time
LatchOver(t, latch_end_time) == t > latch_end_time

\* lines 53-62
check_latch ==
    /\ ears' = IF ~ears.latch_active THEN [ears EXCEPT !.ret = "false"]
               ELSE IF LatchOver(now, ears.latch_end_time)
                    THEN [ears EXCEPT !.latch_active = FALSE, !.ret = "false"]
                    ELSE [ears EXCEPT !.ret = "true"]
    /\ UNCHANGED <<now, earsFrame>>

\* a second passes
EarsTick ==
    /\ now < MaxEarsTime
    /\ now' = now + 1
    /\ ears' = [ears EXCEPT !.ret = "none"]
    /\ UNCHANGED earsFrame

EarsInit ==
    /\ pc = "ears"
    /\ now = 0
    /\ in_conversation = FALSE
    /\ last_interaction_time = 0
    /\ current_time = 0
    /\ text = ""
    /\ command = ""
    /\ connected = TRUE
    /\ provider = "groq"
    /\ pending = NoPending
    /\ in_flight = 0
    /\ response = ""
    /\ is_speaking = FALSE
    /\ interrupt_requested = FALSE
    /\ playback = "none"
    /\ was_interrupted = FALSE
    /\ running = FALSE
    /\ queue = <<>>
    /\ turn = EmptyTurn
    /\ reflexLog = <<>>
    /\ speakers = <<>>
    /\ mixer = 0
    /\ ttsCalls = NoTtsCalls
    /\ captures = <<>>
    /\ ears = NoLatch
    /\ music_process = FALSE
    /\ vad = NoVad
    /\ retry = NoRetry

EarsNext ==
    \/ activate_latch
    \/ check_latch
    \/ EarsTick

SpecEars == EarsInit /\ [][EarsNext]_vars

(***************************************************************************)
(* Properties                                                              *)
(***************************************************************************)

RmCommand == "rm -rf /tmp/x"
RmRequest == "{\"tool\":\"run_command\",\"command\":\"rm -rf /tmp/x\"}"

\* the tool handlers that ran in the turn's think call are exactly cs
Ran(cs) == turn.calls = cs

C2_LatchExpiresAfterTimeout ==
    [][(pc = "route" /\ in_conversation /\ ~WakeDetected(text) /\ Len(text) > 2) =>
          /\ (now - last_interaction_time < conversation_timeout) =>
                 (pc' = "think" /\ command' = text)
          /\ (now - last_interaction_time > conversation_timeout) =>
                 (pc' = "listen" /\ ~in_conversation')]_vars

\* C3: a think call made while a confirmation is pending does not call the
\* language model: the text is the answer to the pending question, at most
\* the pending command runs, and nothing is pending afterwards; so a
\* confirmation is only ever set by a call that started with none pending.
C3_PendingAnswerIsNotARequest ==
    (turn.thought /\ turn.pendingBefore.set) =>
        /\ ~turn.llm
        /\ pending = NoPending
        /\ Ran(<<>>) \/ Ran(<<Call("_run_command", turn.pendingBefore.command)>>)
        /\ response = CancelledMsg \/ StartsWith(response, "Done. ")

\* a pending confirmation was answered with something else and cancelled
C3_Witness ==
    /\ turn.thought
    /\ turn.pendingBefore.set
    /\ command = "open chrome"
    /\ ~turn.llm
    /\ response = CancelledMsg
    /\ pending = NoPending

\* answers that are not an affirmative
NegativeAnswers == {"no", "no, don't do it", "google it first", "stop", "open chrome"}

\* C4: while a confirmation is pending, an answer that is not an affirmative
\* runs nothing, clears the pending confirmation and returns the
\* cancellation message.
C4_OnlyAffirmativeExecutes ==
    (turn.thought /\ turn.pendingBefore.set /\ command \in NegativeAnswers) =>
        /\ Ran(<<>>)
        /\ pending = NoPending
        /\ response = CancelledMsg

\* the model's response asks for a shell command or a PowerShell script that
\* the classifier flags
DestructiveRequest(raw) ==
    \/ raw = RmRequest
    \/ raw = "{\"tool\":\"execute_powershell\",\"script\":\"Remove-Item tmp\"}"

\* C5: every destructive request, run_command or execute_powershell, made
\* while nothing is pending runs no handler, sets the pending confirmation
\* and returns the confirmation question.
C5_EveryDestructiveToolAsksFirst ==
    (turn.thought /\ turn.llm /\ ~turn.pendingBefore.set /\ DestructiveRequest(turn.raw)) =>
        /\ Ran(<<>>)
        /\ pending.set
        /\ response = pending.question

\* C6: while TTSEngine is speaking the loop is inside the speech it awaits
\* (the acknowledgement, an action's result, or the monitored response): it
\* is not listening, routing or calling think, so no utterance reaches think
\* while is_speaking is true.
C6_NoThinkWhileSpeaking ==
    is_speaking => pc \in {"ack", "speak_action", "monitor", "await_speak"}

\* a response is playing and a loud frame is waiting in the capture queue
C6_Witness ==
    /\ is_speaking
    /\ playback = "playing"
    /\ pc = "monitor"
    /\ queue # <<>>
    /\ BargeIn(Head(queue))

\* C7: a command that check_reflex would handle is never given to think.
C7_ReflexOfferedFirst == turn.thought => ~IsReflex(command)

\* C8: every check_reflex call with a stop/silence command returns True
\* without raising and leaves the engine not speaking.
C8_StopReflexSilences ==
    \A i \in DOMAIN reflexLog :
        MatchesStop(Strip(reflexLog[i].command)) =>
            (reflexLog[i].result = "true" /\ ~reflexLog[i].speaking)

\* responses that are taken as a tool call and whose braces do not balance
UnbalancedResponses ==
    {"{\"tool\":\"open_app\",\"app\":\"spotify\"",
     "} {\"tool\":\"open_app\",\"app\":\"spotify\"",
     Fence \o "json\n{\"tool\":\"open_app\",\"app\":\"spotify\"}}\n" \o Fence}

\* C9: when the model's response is a tool call with unbalanced braces,
\* think returns the fixed "confused" message, no handler runs, and the raw
\* response is not spoken.
C9_MalformedActionIsConfused ==
    (turn.thought /\ turn.llm /\ turn.raw \in UnbalancedResponses) =>
        /\ response = ConfusedMsg
        /\ Ran(<<>>)
        /\ turn.hands = <<>>
        /\ \A i \in DOMAIN turn.spoken : turn.spoken[i] # Strip(turn.raw)

\* C10: in one turn at most one tool handler runs, counting the handlers of
\* think and those Hands.execute_action dispatches on think's returned text.
C10_ActionConsumedOnce == Len(turn.calls) + Len(turn.hands) <= 1

\* the turn asked for the explicit exit action
ExitRequested ==
    \/ \E i \in DOMAIN turn.calls : turn.calls[i].h = "sys.exit"
    \/ \E i \in DOMAIN turn.hands : turn.hands[i].h = "Hands._system"

C12_UnreachableBackendIsOffline ==
    (turn.thought /\ (~connected \/ turn.backendRaised)) =>
        /\ response = OfflineMsg
        /\ Ran(<<>>)
        /\ ~turn.escaped

C14_CaptureRunsDuringPlayback == is_speaking => running

\* C15: playback is single-instance: two speak() calls are never at work at
\* once (a later call cancels the earlier one and waits for it), and
\* is_speaking is never false while a speak() is synthesising or playing.
C15_SinglePlayback ==
    /\ \A c, d \in DOMAIN speakers : (Active(c) /\ Active(d)) => c = d
    /\ (\E c \in DOMAIN speakers : Active(c)) => is_speaking

\* C16: an interrupt() made while is_speaking is true, during the synthesis
\* or the playback, is recorded and stays recorded until speak() has returned;
\* the playback loop ends on it, and is_speaking becomes false.
C16_InterruptIsHonoured ==
    /\ [][(is_speaking /\ ttsCalls'.interrupts # ttsCalls.interrupts)
              => (interrupt_requested' /\ mixer' = 0)]_vars
    /\ [][(is_speaking /\ interrupt_requested) => (interrupt_requested' \/ ~is_speaking')]_vars
    /\ [][\A c \in DOMAIN speakers :
              (speakers[c] = "play" /\ interrupt_requested /\ speakers'[c] # "play")
                  => (speakers'[c] = "interrupted" /\ mixer' = 0 /\ ~is_speaking')]_vars
    /\ (is_speaking /\ interrupt_requested) ~> ~is_speaking

C16_Witness ==
    /\ speakers = <<"play">>
    /\ mixer = 1
    /\ is_speaking
    /\ interrupt_requested

\* C17: interrupt() made when nothing is being spoken changes nothing and
\* records no request; made while speaking it records the request and stops
\* the mixer, and a second call right after the first changes nothing more.
C17_InterruptIdempotent ==
    [][ttsCalls'.interrupts # ttsCalls.interrupts =>
          /\ UNCHANGED <<is_speaking, speakers>>
          /\ ~is_speaking => UNCHANGED engineVars
          /\ is_speaking => (interrupt_requested' /\ mixer' = 0)
          /\ (is_speaking /\ interrupt_requested /\ mixer = 0) => UNCHANGED engineVars]_vars

C17_Witness ==
    /\ ttsCalls = [speaks |-> 0, interrupts |-> 2]
    /\ ~is_speaking
    /\ ~interrupt_requested
    /\ speakers = <<"idle">>

\* C18: is_speaking is true exactly from the moment speak() takes a text of
\* two or more non-blank characters until speak() returns, whether the audio
\* ran out, the synthesis or the playback failed, or it was interrupted; a
\* refused text leaves is_speaking as it was.
C18_SpeakingWhileInSpeak ==
    /\ [](\A c \in DOMAIN speakers : Active(c) <=> is_speaking)
    /\ [][\A c \in DOMAIN speakers :
              (speakers[c] = "idle" /\ speakers'[c] = "rejected") => UNCHANGED engineVars]_vars
    /\ [][\A c \in DOMAIN speakers :
              (speakers[c] = "idle" /\ speakers'[c] = "synth") => is_speaking']_vars

C18_Witness ==
    /\ speakers = <<"failed">>
    /\ ~is_speaking
    /\ ttsCalls.interrupts = 0

\* C19: after a barge-in the steps come in this order: the playback has
\* stopped and the speak task has ended, then the frame queue is flushed,
\* then the cooldown runs; nothing is queued from the flush until the next
\* record_phrase starts, so that it starts with an empty frame queue.
C19_BargeInOrder ==
    /\ [](pc = "cooldown" =>
            /\ was_interrupted /\ interrupt_requested
            /\ playback = "none" /\ ~is_speaking
            /\ ~running /\ queue = <<>>)
    /\ []((was_interrupted /\ queue # <<>>) => pc = "await_speak")
    /\ [][(pc = "await_speak" /\ was_interrupted /\ pc' # pc) =>
             /\ playback = "none" /\ ~is_speaking
             /\ pc' = "cooldown" /\ queue' = <<>>]_vars
    /\ [][pc = "cooldown" => (pc' \in {"cooldown", "listen"} /\ queue' = <<>>)]_vars
    /\ [][pc = "listen" => (queue' = queue /\ pc' \in {"listen", "recording"})]_vars

C19_Witness ==
    /\ pc = "cooldown"
    /\ turn.cleared > 0
    /\ queue = <<>>

\* C20: every buffer that record_phrase returned with less than 0.5 s of
\* audio is dropped and never handed to the Transcriber, the follow-up
\* capture after a wake phrase with no command included.
C20_ShortBuffersNotTranscribed ==
    \A i \in DOMAIN captures : captures[i].transcribed => ~TooShort(captures[i].frames)

\* C21: the frame queue between the capture callback and its consumer is
\* bounded: whenever frames are queued, the queue has a capacity and holds
\* no more frames than that.
C21_FrameQueueBounded ==
    queue # <<>> => (maxsize > 0 /\ Len(queue) <= maxsize)

\* C22: a capture-device error raised while an utterance is being recorded
\* is fatal: it ends the session; the turn loop does not go on to capture
\* again.
C22_DeviceErrorIsFatal ==
    turn.captureFailed => pc = "exited"

\* the steps with which a turn that was processed ends (main.py line 156)
TurnOver == pc \in {"speak_action", "await_speak", "cooldown"} /\ pc' = "listen"

\* the utterance is routed while the latch is set and its timeout has not passed
LatchedInTime ==
    /\ pc = "route"
    /\ in_conversation
    /\ ~WakeDetected(text)
    /\ now - last_interaction_time < conversation_timeout

AfterThink == {"thinking", "respond", "speak_action", "monitor", "await_speak", "cooldown"}

\* C23: with no latch set, a turn whose text holds a wake-phrase variant
\* followed by a command passes that command to think once, in that same
\* turn, and sets the latch with its timer restarted at the current time, at
\* the emission and again when the turn is over.
C23_WakeWithCommandEmitsOnce ==
    /\ [][(pc = "ack" /\ ~in_conversation /\ ExtractCommand(text) # "" /\ pc' # pc) =>
             /\ pc' = "think" /\ command' = ExtractCommand(text)
             /\ in_conversation' /\ last_interaction_time' = now]_vars
    /\ []((pc \in AfterThink /\ WakeDetected(text) /\ ~turn.wasLatched) =>
             (turn.commands = <<ExtractCommand(text)>> /\ in_conversation))
    /\ [][(TurnOver /\ WakeDetected(text) /\ ~turn.wasLatched) =>
             (in_conversation' /\ last_interaction_time' = now')]_vars

C23_Witness ==
    /\ pc = "thinking"
    /\ text = "Jarvis open chrome"
    /\ ~turn.wasLatched
    /\ turn.commands = <<"open chrome">>
    /\ in_conversation
    /\ last_interaction_time = now

\* C24 as stated: after a wake phrase with no command, the latch is set, no
\* command is emitted in that turn, and the next turn, without a wake phrase
\* and before the timeout, is taken as the command whatever its text.
C24_NextTurnIsTheCommand ==
    [][(LatchedInTime /\ turn.afterBareWake) => (pc' = "think" /\ command' = text)]_vars

\* C24: with no latch set, a turn whose text is a wake phrase with nothing
\* after it sets the latch and does not call think; the next turn, without a
\* wake phrase, before the timeout and of more than 2 characters, is taken
\* whole as the command.
C24_BareWakeAwaitsCommand ==
    /\ [](pc = "ack" => (turn.commands = <<>> /\ in_flight = 0))
    /\ [][(pc = "ack" /\ ~in_conversation /\ ExtractCommand(text) = "" /\ pc' # pc) =>
             /\ pc' = "listen" /\ turn'.commands = <<>> /\ turn'.afterBareWake
             /\ in_conversation' /\ last_interaction_time' = now]_vars
    /\ [][(LatchedInTime /\ turn.afterBareWake /\ Len(text) > 2) =>
             (pc' = "think" /\ command' = text)]_vars

C24_Witness ==
    /\ pc = "think"
    /\ turn.afterBareWake
    /\ command = "open chrome"
    /\ now = TickStep
    /\ in_conversation

\* C25: while the latch is set and its timeout has not passed, a turn
\* without a wake phrase of more than 2 characters is passed whole to think,
\* once, and the latch timer is restarted; one of 2 characters or fewer
\* passes nothing and leaves the latch and its timer as they were; no turn
\* passes more than one command.
C25_LatchedTurn ==
    /\ [][LatchedInTime =>
             IF Len(text) > 2
             THEN /\ pc' = "think" /\ command' = text
                  /\ in_conversation' /\ last_interaction_time' = now
             ELSE /\ pc' = "listen" /\ turn'.commands = <<>>
                  /\ UNCHANGED <<in_conversation, last_interaction_time>>]_vars
    /\ [](Len(turn.commands) <= 1)
    /\ []((pc \in AfterThink /\ ~WakeDetected(text)) => turn.commands = <<text>>)
    /\ [][TurnOver => (in_conversation' /\ last_interaction_time' = now')]_vars

C25_Witness ==
    /\ pc = "thinking"
    /\ text = "google it first"
    /\ turn.commands = <<"google it first">>
    /\ in_conversation
    /\ now = TickStep
    /\ last_interaction_time = now

\* the place in t of the first variant said, and the variant said there:
\* of the variants that start at that place, the longest
VariantsIn(t) == {k \in DOMAIN WakeWordVariants : Contains(t, WakeWordVariants[k])}
FirstVariantAt(t) ==
    CHOOSE i \in 1..Len(t) :
        /\ \E k \in VariantsIn(t) : Find(t, WakeWordVariants[k]) = i
        /\ \A k \in VariantsIn(t) : Find(t, WakeWordVariants[k]) >= i
SaidVariant(t) ==
    CHOOSE k \in VariantsIn(t) :
        /\ Find(t, WakeWordVariants[k]) = FirstVariantAt(t)
        /\ \A m \in VariantsIn(t) :
              Find(t, WakeWordVariants[m]) = FirstVariantAt(t) =>
                  Len(WakeWordVariants[m]) <= Len(WakeWordVariants[k])
CommandSaid(t) ==
    Strip(Tail0(Lower(t), FirstVariantAt(Lower(t)) + Len(WakeWordVariants[SaidVariant(Lower(t))])))

\* C26: a text that holds an accepted wake-phrase variant is a wake trigger,
\* and the command is the text that follows the variant that was said,
\* trimmed: for each variant, also for one that has another variant as a
\* prefix, and when several variants occur in the text.
C26_CommandFollowsVariant ==
    pc # "wake_heard" => (pc = "wake_trigger" /\ command = CommandSaid(text))

\* C27: once the latch timeout has passed, the latch is cleared
\* (in_conversation becomes false) whether or not anything more is heard.
C27_LatchExpiresWithoutAudio ==
    (in_conversation /\ now - last_interaction_time > conversation_timeout) ~> ~in_conversation

\* C28: check_latch returns true exactly when the latch is active and the
\* time is before latch_end_time (the time of activate_latch plus the
\* timeout); when it has returned true the latch is active and the time is
\* before latch_end_time; when it has returned false the latch is inactive,
\* and only activate_latch makes it active again.
C28_LatchWindow ==
    /\ [](ears.ret = "true" => (ears.latch_active /\ now < ears.latch_end_time))
    /\ [](ears.ret = "false" => ~ears.latch_active)
    /\ [][ears'.ret # "none" =>
             (ears'.ret = "true" <=> (ears.latch_active /\ now < ears.latch_end_time))]_vars
    /\ [][(~ears.latch_active /\ ears'.latch_active) =>
             ears'.latch_end_time = now + latch_timeout]_vars

\* what a tool handler returns when the command failed, ran past its
\* deadline, or the tool is not known
FailureResult(ret) ==
    \/ ret = "Command timed out."
    \/ StartsWith(ret, "Failed: ")
    \/ StartsWith(ret, "PowerShell Execution Failed")
    \/ StartsWith(ret, "Unknown tool")

\* C29: think records the exchange in the memory log exactly when an action
\* was executed with success: nothing is recorded when no handler ran (the
\* response could not be parsed, the tool is unknown, only a confirmation
\* was set) or when the handler failed (exception, failed command, timeout).
C29_LoggedIffActionSucceeded ==
    turn.thought =>
        (turn.logged <=>
            /\ turn.calls # <<>>
            /\ turn.fault = ""
            /\ ~FailureResult(turn.ret)
            /\ ~pending.set)

\* C30: a failure of the memory log does not abort a think call and does
\* not change what it returns: think returns what it returns when the log
\* works, the executed tool's result included.
C30_MemoryFailureIsHarmless ==
    turn.thought => (~turn.escaped /\ response = turn.wouldReturn)

\* C31: the process ends only through the exit action, and when it ends a
\* farewell has been played through speech output before it ends.
C31_ExitSpeaksFarewell ==
    pc = "exited" =>
        /\ ExitRequested
        /\ \E i \in DOMAIN turn.spoken : StartsWith(turn.spoken[i], "Goodbye")

\* C32: no shell call waits beyond the deadline; a run_command, or a
\* confirmed pending command, whose process has not ended at the deadline
\* ends with "Command timed out." as the result of _run_command.
C32_ShellCallsHaveDeadline ==
    /\ pc = "shell_waiting" => Waited <= timeout
    /\ (/\ pc = "shell_returned"
        /\ turn.shell.site \in {"_run_command", "_handle_confirmation"}
        /\ ~ProcessEnded)
       => Contains(response, "Command timed out.")

C34_NoThinkWhileMusicPlays ==
    (pc = "music_think" /\ ~IsReflex(command)) => ~music_process

\* the place in vad.seen of the first and of the last frame above the
\* threshold, 0 when there is none
FirstLoud ==
    IF \E i \in DOMAIN vad.seen : Loud(vad.seen[i])
    THEN CHOOSE i \in DOMAIN vad.seen :
            Loud(vad.seen[i]) /\ \A j \in 1..(i - 1) : ~Loud(vad.seen[j])
    ELSE 0

LastLoud ==
    IF \E i \in DOMAIN vad.seen : Loud(vad.seen[i])
    THEN CHOOSE i \in DOMAIN vad.seen :
            Loud(vad.seen[i]) /\ \A j \in (i + 1)..Len(vad.seen) : ~Loud(vad.seen[j])
    ELSE 0

\* C35: capture is speaking from the first frame above the threshold on; it
\* leaves speaking only when more than silence_duration has passed since the
\* silence began, a silence that began after the last frame above the
\* threshold; the utterance starts with a frame above the threshold, holds
\* every frame taken from that one on, up to the frame at the cutoff, and
\* no frame taken before it.
C35_VadStateMachine ==
    /\ pc = "vad_listening" =>
          /\ vad.is_speaking <=> FirstLoud # 0
          /\ vad.frames = IF FirstLoud = 0 THEN <<>>
                          ELSE SubSeq(vad.seen, FirstLoud, Len(vad.seen))
    /\ pc = "vad_closing" =>
          /\ FirstLoud # 0 /\ LastLoud < Len(vad.seen)
          /\ vad.left - vad.silence_start_time > silence_duration
          /\ vad.silence_start_time >= vad.seen[LastLoud + 1].at
          /\ vad.frames = SubSeq(vad.seen, FirstLoud, Len(vad.seen) - 1)
    /\ \A k \in DOMAIN vad.phrases :
          vad.phrases[k] # <<>> /\ Loud(vad.phrases[k][1])

\* a phrase has been returned: the silence before the speech is not in it,
\* the silence after the speech is
C35_Witness ==
    /\ pc = "vad_idle"
    /\ Len(vad.phrases) = 1
    /\ ~Loud(vad.seen[1])
    /\ Len(vad.phrases[1]) = 2
    /\ ~Loud(vad.phrases[1][2])

\* C36: after _handle_confirmation has answered, no confirmation is pending,
\* whatever the command did (output, failure, timeout); a destructive
\* command is run only by the turn that answers its pending confirmation
\* with an affirmative, so the confirmation cannot be used a second time.
C36_ConfirmationIsConsumed ==
    turn.thought =>
        /\ (turn.pendingBefore.set /\ turn.ret # OfflineMsg) => ~pending.set
        /\ \A i \in DOMAIN turn.calls :
              (turn.calls[i].h = "_run_command" /\ is_destructive_command(turn.calls[i].arg))
              => /\ turn.pendingBefore.set
                 /\ turn.calls[i].arg = turn.pendingBefore.command
                 /\ IsAffirmative(command)

\* the confirmed command timed out and no confirmation is pending
C36_Witness ==
    /\ turn.thought
    /\ turn.pendingBefore.set
    /\ turn.calls = <<Call("_run_command", turn.pendingBefore.command)>>
    /\ turn.ret = "Done. Command timed out."
    /\ ~pending.set

\* C37: a cancellation request is outstanding only while speaking: whenever
\* is_speaking is false, _interrupt_requested is false.
C37_RequestOnlyWhileSpeaking == ~is_speaking => ~interrupt_requested

\* C38: a frame that the callback queued after an utterance had ended, before
\* _running was cleared, is in no utterance that record_phrase builds later.
C38_LateFramesAreNotConsumed ==
    \A i \in DOMAIN vad.frames : ~vad.frames[i].late

\* C39: the wrapper calls func at most max_retries + 1 times; it returns at
\* the first call that returns; it raises at once an exception that is not
\* listed; when every one of the max_retries + 1 calls raised a listed
\* exception it raises the last one; it sleeps once between two calls and
\* not after the last, the first delay being `delay` and each next one the
\* one before it times backoff.
C39_RetryAtMostNPlusOne ==
    LET calls == Len(retry.outcomes)
        slept == Len(retry.sleeps)
    IN  /\ calls <= retry.max_retries + 1
        /\ slept <= retry.max_retries
        /\ \A i \in 1..(calls - 1) : retry.outcomes[i] = "raises_listed"
        /\ \A i \in DOMAIN retry.sleeps :
              retry.sleeps[i] = IF i = 1 THEN retry.delay
                                ELSE retry.sleeps[i - 1] * retry.backoff
        /\ pc = "retry_attempt" => slept = calls
        /\ pc = "retry_sleep" => slept = calls - 1
        /\ pc = "retry_ended" =>
              /\ slept = calls - 1
              /\ CASE retry.outcomes[calls] = "returns" -> retry.ended = <<"returned", calls>>
                   [] retry.outcomes[calls] = "raises_other" ->
                         retry.ended = <<"raised", <<"other", calls>>>>
                   [] OTHER -> /\ calls = retry.max_retries + 1
                               /\ retry.ended = <<"raised", <<"listed", calls>>>>

\* every one of the three calls raised a listed exception and the wrapper
\* has raised the last of them, after two sleeps
C39_Witness ==
    /\ pc = "retry_ended"
    /\ retry.max_retries = 2
    /\ retry.outcomes = <<"raises_listed", "raises_listed", "raises_listed">>
    /\ retry.sleeps = <<2, 6>>
    /\ retry.ended = <<"raised", <<"listed", 3>>>>

====
